---------------------------- MODULE Spec2Model ----------------------------
(***************************************************************************)
(* A model of lamzu-cfg: the HID packet codec and its checksum, the        *)
(* request/response transport, the address-stream reader and writer, the   *)
(* raw profile codec and the Atlantis mouse facade.                        *)
(*                                                                         *)
(* Every API call is one action.  An action evaluates the whole handler as *)
(* the code runs it and leaves the call's record in `call`; the device's   *)
(* own state is `active` (the active profile index) and `mem` (the profile *)
(* memory of each of the four profiles, kept sparsely: an address that is  *)
(* not in the map holds the byte Blank).                                   *)
(***************************************************************************)
EXTENDS Integers, Sequences, FiniteSets, Bags, TLC

VARIABLES active, mem, call

vars == <<active, mem, call>>

(***************************************************************************)
(* Bytes and sequences.                                                    *)
(***************************************************************************)
Byte == 0..255

Min(a, b) == IF a < b THEN a ELSE b

Max(a, b) == IF a < b THEN b ELSE a

\* The sum of the numbers of a sequence: the cardinality of the bag that
\* holds s[i] + 1 copies of each index i, less one copy of each.
SumSeq(s) == BagCardinality([i \in DOMAIN s |-> s[i] + 1]) - Len(s)

Zeros(n) == [i \in 1..n |-> 0]

Fill(n, b) == [i \in 1..n |-> b]

Take(s, n) == SubSeq(s, 1, Min(n, Len(s)))

Drop(s, n) == SubSeq(s, Min(n, Len(s)) + 1, Len(s))

\* Option<T>: <<>> is None, <<v>> is Some(v).
None == <<>>

Some(v) == <<v>>

IsSome(o) == o # <<>>

\* G(v), with v evaluated before G is entered: the steps of a sequence of
\* operations are then evaluated one after the other and not one inside the
\* other.
Let(v, G(_)) == IF v = v THEN G(v) ELSE G(v)

\* The middle of lo..hi: a loop over lo..hi runs its lower half, then its
\* upper half.
Mid(lo, hi) == (lo + hi) \div 2

(***************************************************************************)
(* device/atlantis/checksum.rs: the packet checksum.                       *)
(***************************************************************************)
\* Checksum::new: the starting value of the accumulator.
ChecksumNew == 85

\* Mutant: the accumulator adds the bytes instead of subtracting them.
ChecksumFeedAdd(c, bytes) == (c + SumSeq(bytes)) % 256

\* Checksum::read / Checksum::write: wrapping_sub of every byte, in order,
\* which leaves the accumulator at `c` minus the sum of the bytes, modulo 256.
ChecksumFeed(c, bytes) == (c - SumSeq(bytes)) % 256

(***************************************************************************)
(* device/atlantis/report.rs: StandardReport.                              *)
(***************************************************************************)
ReportId == 8

ReportSize == 17

MaxData == 10

CmdWriteProfileData == 7

CmdReadProfileData == 8

CmdReadActiveProfile == 14

CmdWriteActiveProfile == 15

Commands == {CmdWriteProfileData, CmdReadProfileData,
             CmdReadActiveProfile, CmdWriteActiveProfile}

\* `address as u16`
U16(n) == n % 65536

read_profile_data(address, length) ==
    [cmd |-> CmdReadProfileData, error |-> 0, address |-> U16(address),
     data |-> Zeros(length)]

write_profile_data(address, data) ==
    [cmd |-> CmdWriteProfileData, error |-> 0, address |-> U16(address),
     data |-> data]

read_active_profile ==
    [cmd |-> CmdReadActiveProfile, error |-> 0, address |-> 0, data |-> <<>>]

write_active_profile(profile_index) ==
    [cmd |-> CmdWriteActiveProfile, error |-> 0, address |-> 0,
     data |-> <<profile_index>>]

\* BinWrite for StandardReport through Checksum::new: the magic (report ID),
\* cmd, error, the big-endian address, the length, the data padded with zero
\* bytes to 10, then the accumulator's value after those sixteen bytes.  The
\* write fails when the data is longer than 10 bytes.
ReportBody(r) ==
    <<ReportId, r.cmd, r.error, r.address \div 256, r.address % 256, Len(r.data)>>
        \o r.data \o Zeros(MaxData - Len(r.data))

Serialise(r) ==
    IF Len(r.data) > MaxData THEN [ok |-> FALSE, bytes |-> <<>>]
    ELSE [ok |-> TRUE,
          bytes |-> ReportBody(r) \o <<ChecksumFeed(ChecksumNew, ReportBody(r))>>]

\* BinRead for StandardReport through Checksum::new, on the 17 bytes of one
\* report.  The accumulator takes every byte that is read: the magic, cmd,
\* error, the address, the length and `len` data bytes; the padding up to 10
\* data bytes is skipped by a seek and is not read; then the checksum byte is
\* read and the accumulator must be 0.  A cmd byte that is no Command, a
\* wrong magic and a length above 10 are parse errors.
ParsedBytes(bytes) ==
    SubSeq(bytes, 1, 6 + bytes[6]) \o <<bytes[ReportSize]>>

ParseReport(bytes) ==
    IF bytes[1] # ReportId THEN [ok |-> FALSE, err |-> "BinRw:magic"]
    ELSE IF bytes[2] \notin Commands THEN [ok |-> FALSE, err |-> "BinRw:cmd"]
    ELSE IF bytes[6] > MaxData THEN [ok |-> FALSE, err |-> "BinRw:len"]
    ELSE IF ChecksumFeed(ChecksumNew, ParsedBytes(bytes)) # 0
         THEN [ok |-> FALSE, err |-> "BinRw:checksum"]
    ELSE [ok |-> TRUE,
          report |-> [cmd |-> bytes[2], error |-> bytes[3],
                      address |-> bytes[4] * 256 + bytes[5],
                      data |-> SubSeq(bytes, 7, 6 + bytes[6])]]

(***************************************************************************)
(* device/checksum.rs: SumComplement8<INIT>.                               *)
(***************************************************************************)
Sum171 == 171

Sum181 == 181

\* Mutant: the accumulator subtracts the bytes, as the packet checksum does.
Sum8WriteSub(sum, bytes) == ChecksumFeed(sum, bytes)

\* Algorithm::write: wrapping_add of every byte, in order, which leaves the
\* sum at `sum` plus the sum of the bytes, modulo 256.
Sum8Write(sum, bytes) == (sum + SumSeq(bytes)) % 256

\* Mutant: the one's complement of the sum.
Sum8FinishOnes(sum) == 255 - sum

\* Algorithm::finish: the two's complement of the sum.
Sum8Finish(sum) == (0 - sum) % 256

\* Mutant: every sum is valid.
Sum8IsValidAny(sum) == TRUE

\* Algorithm::is_valid
Sum8IsValid(sum) == Sum8Finish(sum) = 0

(***************************************************************************)
(* The packet specification: the requests the library builds.              *)
(***************************************************************************)
\* Bounds of the inputs the packet specification enumerates.
MaxShortPayload == 2

DATA_END == 6912

SampleBytes == {0, 1, 85, 171, 255}

SampleAddresses == {0, 1, 169, 256, 768, 6902, DATA_END - 1}

RECURSIVE SeqsUpTo(_, _)
SeqsUpTo(S, n) ==
    IF n = 0 THEN {<<>>}
    ELSE SeqsUpTo(S, n - 1)
           \cup {Append(s, b) : s \in {t \in SeqsUpTo(S, n - 1) : Len(t) = n - 1},
                                b \in S}

SamplePayloads ==
    SeqsUpTo(SampleBytes, MaxShortPayload)
        \cup {Fill(n, b) : n \in 0..MaxData, b \in {1, 255}}
        \cup {[i \in 1..n |-> (37 * i) % 256] : n \in 1..MaxData}

NoCall == [op |-> "none"]

NoMem == [p \in 0..3 |-> <<>>]

\* The arguments of the four constructors, drawn by the initial state.
PacketArgs ==
    {[op |-> "args", ctor |-> "read_profile_data", address |-> a, arg |-> n] :
        a \in SampleAddresses, n \in 0..MaxData}
    \cup {[op |-> "args", ctor |-> "write_profile_data", address |-> a, arg |-> d] :
        a \in SampleAddresses, d \in SamplePayloads}
    \cup {[op |-> "args", ctor |-> "read_active_profile", address |-> 0, arg |-> 0]}
    \cup {[op |-> "args", ctor |-> "write_active_profile", address |-> 0, arg |-> i] :
        i \in 0..3}

InitPacket == active = 0 /\ mem = NoMem /\ call \in PacketArgs

BuildRequest(ctor, r) ==
    /\ call.op = "args"
    /\ call.ctor = ctor
    /\ call' = [op |-> "serialise", report |-> r, out |-> Serialise(r)]
    /\ UNCHANGED <<active, mem>>

BuildReadProfileData ==
    BuildRequest("read_profile_data", read_profile_data(call.address, call.arg))

BuildWriteProfileData ==
    BuildRequest("write_profile_data", write_profile_data(call.address, call.arg))

BuildReadActiveProfile == BuildRequest("read_active_profile", read_active_profile)

BuildWriteActiveProfile ==
    BuildRequest("write_active_profile", write_active_profile(call.arg))

NextPacket ==
    \/ BuildReadProfileData
    \/ BuildWriteProfileData
    \/ BuildReadActiveProfile
    \/ BuildWriteActiveProfile

SpecPacket == InitPacket /\ [][NextPacket]_vars

\* C7 as stated: the 17 bytes of every request sum to 0 modulo 256.
C7_SumIsZero ==
    (call.op = "serialise" /\ call.out.ok) => SumSeq(call.out.bytes) % 256 = 0

\* C7, amended: every request serialises to 17 bytes that start with the
\* report ID 0x08 and sum, checksum byte included, to 85 modulo 256.
C7_SumIs85 ==
    (call.op = "serialise") =>
        /\ call.out.ok
        /\ Len(call.out.bytes) = ReportSize
        /\ call.out.bytes[1] = ReportId
        /\ SumSeq(call.out.bytes) % 256 = 85

\* A write request with a full 10-byte payload at the last address has been built.
C7_Witness ==
    /\ call.op = "serialise"
    /\ call.report.cmd = CmdWriteProfileData
    /\ Len(call.report.data) = MaxData
    /\ call.report.address = DATA_END - 1
    /\ SumSeq(call.report.data) > 256

(***************************************************************************)
(* device/atlantis/report.rs: read_report, write_report, make_request.     *)
(***************************************************************************)
\* The number of response reads make_request attempts.
MaxReads == 3

Err(e) == [kind |-> "err", err |-> e]

Ok(v) == [kind |-> "ok", val |-> v]

Panic == [kind |-> "panic"]

\* A call that does not return.
Hang == [kind |-> "hang"]

IsOk(r) == r.kind = "ok"

\* One device.read as the HID layer delivers it: an I/O error, or `n` bytes
\* read into the 17-byte buffer.
HidError == [io |-> TRUE]

HidRead(bytes) == [io |-> FALSE, n |-> Len(bytes), bytes |-> bytes \o Zeros(ReportSize - Len(bytes))]

\* read_report: device.read, the report ID check, the assertion on the
\* number of bytes read, then the parse.
read_report(rd) ==
    IF rd.io THEN Err("Hid")
    ELSE IF rd.bytes[1] # ReportId THEN Err("UnexpectedReport")
    ELSE IF rd.n # ReportSize THEN Panic
    ELSE LET p == ParseReport(rd.bytes)
         IN  IF p.ok THEN Ok(p.report) ELSE Err(p.err)

\* StandardReport::is_valid_response_for
is_valid_response_for(response, request) == response.cmd = request.cmd

\* Mutant: a failed read is skipped like a report of another command.
RECURSIVE ResponseLoopLenient(_, _, _)
ResponseLoopLenient(request, incoming, i) ==
    IF i = MaxReads THEN [result |-> Err("NoResponse"), reads |-> i]
    ELSE LET r == read_report(incoming[i + 1])
         IN  IF IsOk(r) /\ is_valid_response_for(r.val, request)
                 THEN [result |-> r, reads |-> i + 1]
             ELSE ResponseLoopLenient(request, incoming, i + 1)

\* Mutant: a report of another command ends the search with an error.
ResponseLoopStrict(request, incoming, i) ==
    IF i = MaxReads THEN [result |-> Err("NoResponse"), reads |-> i]
    ELSE LET r == read_report(incoming[i + 1])
         IN  IF IsOk(r) /\ ~is_valid_response_for(r.val, request)
             THEN [result |-> Err("UnexpectedReport"), reads |-> i + 1]
             ELSE [result |-> r, reads |-> i + 1]

\* The loop of make_request after `i` reads: a matching report is returned,
\* a report of another command and a report with another ID are skipped,
\* any other failure is returned, and three reads without a match give
\* NoResponse.
RECURSIVE ResponseLoop(_, _, _)
ResponseLoop(request, incoming, i) ==
    IF i = MaxReads THEN [result |-> Err("NoResponse"), reads |-> i]
    ELSE LET r == read_report(incoming[i + 1])
         IN  IF IsOk(r) /\ is_valid_response_for(r.val, request)
                 THEN [result |-> r, reads |-> i + 1]
             ELSE IF IsOk(r) THEN ResponseLoop(request, incoming, i + 1)
             ELSE IF r.kind = "err" /\ r.err = "UnexpectedReport"
                 THEN ResponseLoop(request, incoming, i + 1)
             ELSE [result |-> r, reads |-> i + 1]

\* write_report then the loop.  `wr` is what device.write does: "ok", "hid"
\* (an I/O error) or "short" (fewer than 17 bytes written: the assertion).
make_request(request, wr, incoming) ==
    LET out == Serialise(request)
    IN  IF ~out.ok THEN [result |-> Err("BinRw:write"), writes |-> 0, reads |-> 0]
        ELSE IF wr = "hid" THEN [result |-> Err("Hid"), writes |-> 1, reads |-> 0]
        ELSE IF wr = "short" THEN [result |-> Panic, writes |-> 1, reads |-> 0]
        ELSE LET l == ResponseLoop(request, incoming, 0)
             IN  [result |-> l.result, writes |-> 1, reads |-> l.reads]

(***************************************************************************)
(* The request specification: one make_request against every sequence of   *)
(* three reports the HID layer may deliver.                                *)
(***************************************************************************)
\* `bytes` with byte `i` replaced by `v`.
Patch(bytes, i, v) == [bytes EXCEPT ![i] = v]

\* `bytes` with the checksum byte recomputed over the first sixteen.
Refit(bytes) ==
    Patch(bytes, ReportSize, ChecksumFeed(ChecksumNew, SubSeq(bytes, 1, ReportSize - 1)))

SampleRequests ==
    {read_active_profile, write_active_profile(2), read_profile_data(0, 10),
     read_profile_data(DATA_END - 2, 2), write_profile_data(0, <<2, 83>>)}

\* The device's answer to a request: the same command and address, and
\* either the data or a non-zero error byte.
Answer(request, data) == [request EXCEPT !.data = data]

OtherCmd(request) ==
    IF request.cmd = CmdReadProfileData THEN CmdReadActiveProfile ELSE CmdReadProfileData

\* What one read may deliver while `request` is outstanding.
Deliveries(request) ==
    LET good == Serialise(Answer(request, [i \in 1..Len(request.data) |-> i])).bytes
    IN  { HidError,
          HidRead(good),
          HidRead(Refit(Patch(good, 3, 5))),                      \* error byte 5
          HidRead(Refit(Patch(good, 2, OtherCmd(request)))),       \* another command
          HidRead(Patch(good, 1, 1)),                              \* another report ID
          HidRead(Refit(Patch(good, 2, 9))),                       \* no such command
          HidRead(Refit(Patch(good, 6, 11))),                      \* length above 10
          HidRead(Patch(good, ReportSize, (good[ReportSize] + 1) % 256)),  \* bad checksum
          HidRead(SubSeq(good, 1, ReportSize - 1)) }               \* short read

AllDown == [i \in 1..MaxReads |-> HidError]

RequestArgs ==
    UNION {{[op |-> "args", request |-> rq, wr |-> "ok", incoming |-> inc] :
               inc \in [1..MaxReads -> Deliveries(rq)]} : rq \in SampleRequests}
    \cup {[op |-> "args", request |-> read_profile_data(0, 11), wr |-> "ok",
           incoming |-> inc] :
               inc \in [1..MaxReads -> Deliveries(read_profile_data(0, 10))]}
    \cup {[op |-> "args", request |-> rq, wr |-> wr, incoming |-> AllDown] :
               rq \in SampleRequests, wr \in {"hid", "short"}}

InitRequest == active = 0 /\ mem = NoMem /\ call \in RequestArgs

MakeRequest ==
    /\ call.op = "args"
    /\ call' = [op |-> "make_request", request |-> call.request, wr |-> call.wr,
                incoming |-> call.incoming,
                out |-> make_request(call.request, call.wr, call.incoming)]
    /\ UNCHANGED <<active, mem>>

NextRequest == MakeRequest

SpecRequest == InitRequest /\ [][NextRequest]_vars

\* How a delivered read looks from outside the parser.
WellFormed(rd) ==
    /\ ~rd.io
    /\ rd.n = ReportSize
    /\ rd.bytes[1] = ReportId
    /\ rd.bytes[2] \in Commands
    /\ rd.bytes[6] <= MaxData
    /\ SumSeq(ParsedBytes(rd.bytes)) % 256 = 85

Matches(rd, request) == WellFormed(rd) /\ rd.bytes[2] = request.cmd

Skippable(rd, request) ==
    \/ WellFormed(rd) /\ rd.bytes[2] # request.cmd
    \/ ~rd.io /\ rd.bytes[1] # ReportId

\* The failure a read ends with, <<>> when it is none of those C6 names.
ReadFailure(rd) ==
    IF rd.io THEN <<"Hid">>
    ELSE IF rd.bytes[1] # ReportId \/ rd.n # ReportSize THEN <<>>
    ELSE IF rd.bytes[2] \notin Commands THEN <<"BinRw:cmd">>
    ELSE IF rd.bytes[6] > MaxData THEN <<"BinRw:len">>
    ELSE IF SumSeq(ParsedBytes(rd.bytes)) % 256 # 85 THEN <<"BinRw:checksum">>
    ELSE <<>>

RequestSent == call.op = "make_request" /\ call.wr = "ok" /\ Len(call.request.data) <= MaxData

\* C5: make_request writes the request once and reads at most three times;
\* reports of another command are skipped without error, the first report of
\* the request's command is the result, and three reads without one give
\* NoResponse.
C5_FirstMatchOfThree ==
    RequestSent =>
        LET inc == call.incoming
            out == call.out
            rq  == call.request
        IN  /\ out.writes = 1
            /\ out.reads \in 1..MaxReads
            /\ \A k \in 1..MaxReads :
                 (Matches(inc[k], rq) /\ \A j \in 1..(k - 1) : Skippable(inc[j], rq)) =>
                     /\ out.reads = k
                     /\ IsOk(out.result)
                     /\ ReportBody(out.result.val) = SubSeq(
                            inc[k].bytes, 1, 6 + inc[k].bytes[6])
                                \o Zeros(MaxData - inc[k].bytes[6])
            /\ (\A j \in 1..MaxReads : Skippable(inc[j], rq)) =>
                     out.reads = MaxReads /\ out.result = Err("NoResponse")
            /\ Skippable(inc[out.reads], rq) =>
                     out.reads = MaxReads /\ out.result = Err("NoResponse")

\* Two reports of another command were skipped and the third read matched.
C5_Witness ==
    /\ RequestSent
    /\ call.out.reads = MaxReads
    /\ IsOk(call.out.result)
    /\ WellFormed(call.incoming[1]) /\ call.incoming[1].bytes[2] # call.request.cmd
    /\ WellFormed(call.incoming[2]) /\ call.incoming[2].bytes[2] # call.request.cmd

\* C6: a response read that fails with an I/O error, a parse error or a bad
\* packet checksum ends make_request with that failure, and no read follows.
C6_ReadFailureSurfaces ==
    RequestSent =>
        \A k \in 1..MaxReads :
            (/\ ReadFailure(call.incoming[k]) # <<>>
             /\ \A j \in 1..(k - 1) : Skippable(call.incoming[j], call.request)) =>
                /\ call.out.reads = k
                /\ call.out.result = Err(ReadFailure(call.incoming[k])[1])

\* A skipped report was followed by a report with a bad checksum, which
\* ended the request at the second read although a matching report was next.
C6_Witness ==
    /\ RequestSent
    /\ Skippable(call.incoming[1], call.request)
    /\ ReadFailure(call.incoming[2]) = <<"BinRw:checksum">>
    /\ Matches(call.incoming[3], call.request)
    /\ call.out.reads = 2
    /\ call.out.result = Err("BinRw:checksum")

(***************************************************************************)
(* The validation specification: the three checksums on candidate slots    *)
(* and candidate packets.                                                  *)
(***************************************************************************)
\* Append::read's assertion: the accumulator of the slot's algorithm, fed the
\* value bytes and then the checksum byte, is valid.
AppendIsValid(init, value, checksum) ==
    Sum8IsValid(Sum8Write(Sum8Write(init, value), <<checksum>>))

\* Bound on the length of the enumerated slot values.
MaxSlotValue == 2

SlotValues ==
    (SeqsUpTo(SampleBytes \cup {2}, MaxSlotValue) \ {<<>>})
        \cup {Fill(n, b) : n \in {3, 7, 19, 31}, b \in {1, 255}}

\* Checksum bytes worth trying for a value: the complements to each seed,
\* the difference the seed minus the sum, and 0.
ChecksumsFor(value) ==
    {(0 - init - SumSeq(value)) % 256 : init \in {Sum171, Sum181, ChecksumNew}}
        \cup {(init - SumSeq(value)) % 256 : init \in {Sum171, Sum181}}
        \cup {0}

PacketPool ==
    LET base == {Serialise(Answer(rq, [i \in 1..Len(rq.data) |-> (i * 50) % 256])).bytes :
                     rq \in SampleRequests}
        patched == {Patch(b, i, v) : b \in base, i \in 1..ReportSize, v \in SampleBytes}
    IN  patched \cup {Refit(b) : b \in patched}

ValidateArgs ==
    UNION {{[op |-> "args", what |-> w, value |-> v, checksum |-> c] :
               c \in ChecksumsFor(v), w \in {"header", "combo", "macro"}} : v \in SlotValues}
    \cup {[op |-> "args", what |-> "packet", value |-> SubSeq(b, 1, ReportSize - 1),
           checksum |-> b[ReportSize]] : b \in PacketPool}

InitValidate == active = 0 /\ mem = NoMem /\ call \in ValidateArgs

Validated(valid) ==
    call' = [op |-> "validate", what |-> call.what, value |-> call.value,
             checksum |-> call.checksum, valid |-> valid]

\* A header slot or a combo slot: Append8<T, Sum171>.
ValidateSum171 ==
    /\ call.op = "args" /\ call.what \in {"header", "combo"}
    /\ Validated(AppendIsValid(Sum171, call.value, call.checksum))
    /\ UNCHANGED <<active, mem>>

\* A macro slot: Append8<RawMacro, Sum181>.
ValidateSum181 ==
    /\ call.op = "args" /\ call.what = "macro"
    /\ Validated(AppendIsValid(Sum181, call.value, call.checksum))
    /\ UNCHANGED <<active, mem>>

\* A packet whose report ID, command and length parse: the checksum
\* assertion of the StandardReport read decides.
ValidatePacket ==
    /\ call.op = "args" /\ call.what = "packet"
    /\ LET p == ParseReport(Append(call.value, call.checksum))
       IN  Validated(IF p.ok THEN "valid" ELSE p.err)
    /\ UNCHANGED <<active, mem>>

NextValidate == ValidateSum171 \/ ValidateSum181 \/ ValidatePacket

SpecValidate == InitValidate /\ [][NextValidate]_vars

SlotSeed(what) == IF what = "macro" THEN Sum181 ELSE Sum171

PacketChecked == call.op = "validate" /\ call.what = "packet"
                     /\ call.valid \in {"valid", "BinRw:checksum"}

SlotChecked == call.op = "validate" /\ call.what # "packet"

SlotRelation ==
    SlotChecked =>
        (call.valid <=>
            (SlotSeed(call.what) + SumSeq(call.value) + call.checksum) % 256 = 0)

\* C8 as stated: slots validate 171 + sum = 0 (header, combo) and 181 + sum
\* = 0 (macro), and a packet validates 85 + (sum of all 17 bytes) = 0, all
\* modulo 256.
C8_SameRelation ==
    /\ SlotRelation
    /\ PacketChecked =>
        ((call.valid = "valid") <=>
            (ChecksumNew + SumSeq(call.value) + call.checksum) % 256 = 0)

\* C8, amended: the slot checksums validate seed + sum = 0 modulo 256 over
\* the value bytes and the checksum byte, with seed 171 (header, combo) and
\* 181 (macro); the packet checksum validates 85 - sum = 0 modulo 256 over
\* the bytes that are read (the report ID, command, error, address, length,
\* the `len` data bytes and the checksum byte, not the padding).
C8_SlotsAddPacketSubtracts ==
    /\ SlotRelation
    /\ PacketChecked =>
        ((call.valid = "valid") <=>
            (ChecksumNew - SumSeq(ParsedBytes(Append(call.value, call.checksum)))) % 256 = 0)

\* A packet passed the check, and did so with a non-zero padding byte.
C8_Witness ==
    /\ PacketChecked
    /\ call.valid = "valid"
    /\ call.value[6] < MaxData
    /\ call.value[ReportSize - 1] # 0

(***************************************************************************)
(* The mouse: four profile memories, of which commands 7 and 8 address the *)
(* active one, and the index of the active profile.                        *)
(***************************************************************************)
\* A byte of profile memory that was never written.
Blank == 255

MemGet(m, a) == IF a \in DOMAIN m THEN m[a] ELSE Blank

MemRead(m, a, n) == [i \in 1..n |-> MemGet(m, a + i - 1)]

\* `bytes` stored from address `a` on.
MemWrite(m, a, bytes) ==
    [x \in a..(a + Len(bytes) - 1) |-> bytes[x - a + 1]] @@ m

\* The report the mouse answers a request with.
DeviceAnswer(s, rq) ==
    IF rq.cmd = CmdReadActiveProfile THEN Answer(rq, <<s.active>>)
    ELSE IF rq.cmd = CmdReadProfileData
        THEN Answer(rq, MemRead(s.mem[s.active], rq.address, Len(rq.data)))
    ELSE Answer(rq, rq.data)

\* The effect of a request on the mouse, which has no profile of an index
\* above 3 to switch to.
DeviceApply(s, rq) ==
    IF rq.cmd = CmdWriteActiveProfile
        THEN IF rq.data[1] \in DOMAIN s.mem THEN [s EXCEPT !.active = rq.data[1]] ELSE s
    ELSE IF rq.cmd = CmdWriteProfileData
        THEN [s EXCEPT !.mem[s.active] = MemWrite(@, rq.address, rq.data)]
    ELSE s

\* One failure of the transport or the mouse during a call: the `nth`
\* request of command `cmd` fails in the way `kind`; every other request is
\* answered.
NoFailure == [cmd |-> 0, nth |-> 0, kind |-> "none"]

CountCmd(log, cmd) == Cardinality({i \in DOMAIN log : log[i].cmd = cmd})

\* A report of another command, as delivered while `rq` is outstanding.
Unrelated(rq) ==
    HidRead(Serialise([cmd |-> OtherCmd(rq), error |-> 0, address |-> 0,
                       data |-> <<0>>]).bytes)

\* make_request against the mouse.  `s` carries the mouse (active, mem), the
\* requests issued so far (log) and the failure to inject (plan).
\*   "hid":      device.write fails; the mouse never sees the request.
\*   "mouseerr": the mouse refuses the request and answers with error 5.
\*   "noresp":   the mouse executes the request, but three reports of
\*               another command arrive instead of its answer.
\*   "badsum":   the mouse executes the request, and its answer arrives
\*               with a checksum byte that is off by one.
\*   "unplugged": device.write fails for the `nth` request of the command
\*               and for every later one.
Exchange(s, rq) ==
    LET nth == CountCmd(s.log, rq.cmd) + 1
        hit == /\ s.plan.cmd = rq.cmd
               /\ \/ s.plan.nth = nth
                  \/ s.plan.kind = "unplugged" /\ s.plan.nth <= nth
        kind == IF ~hit THEN "none"
                ELSE IF s.plan.kind = "unplugged" THEN "hid" ELSE s.plan.kind
        logged == [s EXCEPT !.log = Append(@, rq)]
        answer == IF kind = "mouseerr" THEN [DeviceAnswer(s, rq) EXCEPT !.error = 5]
                  ELSE DeviceAnswer(s, rq)
        incoming == CASE kind = "hid" -> <<>>
                      [] kind = "noresp" -> [i \in 1..MaxReads |-> Unrelated(rq)]
                      [] kind = "badsum" ->
                             LET bytes == Serialise(answer).bytes
                             IN  <<HidRead([bytes EXCEPT ![ReportSize] = (@ + 1) % 256])>>
                      [] OTHER -> <<HidRead(Serialise(answer).bytes)>>
    IN  [s |-> IF kind \in {"hid", "mouseerr"} THEN logged ELSE DeviceApply(logged, rq),
         result |-> make_request(rq, IF kind = "hid" THEN "hid" ELSE "ok",
                                 incoming).result]

\* StandardReport::data / into_data on the result of a request.
into_data(result) ==
    IF ~IsOk(result) THEN result
    ELSE IF result.val.error = 0 THEN Ok(result.val.data)
    ELSE Err("MouseErrorResponse")

(***************************************************************************)
(* ProfileReader.  A reader `r` carries the session r.s, its origin        *)
(* address, position and buffer, the first error met (r.err, "" for none)  *)
(* and the bytes of the last read (r.out).  After an error the operations  *)
(* change nothing, which is how `?` unwinds the caller.                    *)
(***************************************************************************)
ProfileReaderNew(s, address) ==
    [s |-> s, address |-> address, position |-> 0, buf |-> <<>>, err |-> "",
     out |-> <<>>, sum |-> 0, spos |-> 0, val |-> <<>>, wraps |-> FALSE]

ErrorOf(result) == IF result.kind = "panic" THEN "panic" ELSE result.err

\* Read for ProfileReader, called with a destination of `n` bytes.
ReaderFill(r) ==
    IF r.buf # <<>> THEN r
    ELSE LET len == Min(DATA_END - (r.address + r.position), MaxData)
         IN  IF len = 0 THEN [r EXCEPT !.err = "Io:UnexpectedEof"]
             ELSE Let(Exchange(r.s, read_profile_data(r.address + r.position, len)),
                  LAMBDA x :
                      LET d == into_data(x.result)
                      IN  IF IsOk(d) THEN [r EXCEPT !.s = x.s, !.buf = d.val]
                          ELSE [r EXCEPT !.s = x.s, !.err = ErrorOf(d)])

ReaderRead(r, n) ==
    IF r.err # "" THEN [r EXCEPT !.out = Zeros(n)]
    ELSE Let(ReaderFill(r), LAMBDA f :
             IF f.err # "" THEN [f EXCEPT !.out = Zeros(n)]
             ELSE IF Min(n, Len(f.buf)) # n     \* clone_from_slice: lengths differ
                 THEN [f EXCEPT !.err = "panic", !.out = Zeros(n)]
             ELSE [f EXCEPT !.out = Take(f.buf, n), !.buf = Drop(f.buf, n),
                            !.position = @ + n])

\* Seek for ProfileReader.
ReaderSeekStart(r, from_start) ==
    IF r.err # "" THEN r
    ELSE [r EXCEPT !.buf = <<>>, !.position = from_start]

ReaderSeekCurrent(r, from_current) ==
    IF r.err # "" THEN r
    ELSE [r EXCEPT !.buf = IF from_current < 0 \/ from_current >= Len(@) THEN <<>>
                            ELSE Drop(@, from_current),
                   !.position = @ + from_current]

(***************************************************************************)
(* checksum::Stream over a ProfileReader, and the values read through it.  *)
(***************************************************************************)
\* Read for Stream: the bytes of the destination at or after the position
\* of the next byte to hash enter the sum; that position then becomes the
\* end of this read.
StreamRead(r, n) ==
    Let(ReaderRead(r, n), LAMBDA q :
        IF q.err # "" THEN q
        ELSE [q EXCEPT !.sum = Sum8Write(@, Drop(q.out, Max(r.spos - r.position, 0))),
                       !.spos = r.position + n])

\* Fields read one after the other, the i-th in one read of sizes[i] bytes;
\* r.val collects their bytes.
RECURSIVE ReadFields(_, _)
ReadFields(r, sizes) ==
    IF sizes = <<>> THEN [r EXCEPT !.val = <<>>]
    ELSE Let(ReadFields(r, SubSeq(sizes, 1, Len(sizes) - 1)), LAMBDA a :
         Let(StreamRead(a, sizes[Len(sizes)]), LAMBDA b :
             [b EXCEPT !.val = a.val \o b.out]))

ReadBytes(r, n) == ReadFields(r, [i \in 1..n |-> 1])

Variant(name, magic, fields) ==
    [name |-> name, magic |-> magic, fields |-> fields, sub |-> <<>>]

\* The variants of RawAction in declaration order: the magic, read in one
\* read of one or two bytes, and the sizes of the fields after it.
RawActionVariants ==
    << Variant("Disabled",     <<0>>,     <<>>),
       Variant("Button",       <<1>>,     <<1>>),
       Variant("DpiLoop",      <<2, 1>>,  <<>>),
       Variant("DpiUp",        <<2, 2>>,  <<>>),
       Variant("DpiDown",      <<2, 3>>,  <<>>),
       Variant("WheelLeft",    <<3, 1>>,  <<>>),
       Variant("WheelRight",   <<3, 2>>,  <<>>),
       Variant("Fire",         <<4>>,     <<1, 1>>),
       Variant("Combo",        <<5>>,     <<>>),
       Variant("Macro",        <<6>>,     <<1>>),
       Variant("PollRateLoop", <<7>>,     <<>>),
       Variant("DpiLock",      <<10>>,    <<1>>),
       Variant("WheelUp",      <<11, 1>>, <<>>),
       Variant("WheelDown",    <<11, 2>>, <<>>) >>

\* RawDirection: little-endian u16 magics.
RawDirectionVariants ==
    << Variant("Left", <<1, 0>>, <<>>), Variant("Right", <<2, 0>>, <<>>),
       Variant("Middle", <<4, 0>>, <<>>), Variant("Back", <<8, 0>>, <<>>),
       Variant("Forward", <<16, 0>>, <<>>) >>

Direction(name, magic) ==
    [name |-> name, magic |-> magic, fields |-> <<>>, sub |-> RawDirectionVariants]

\* RawKeyEvent: a one-byte magic, then a little-endian u16 read in one read,
\* or a RawDirection.
RawKeyEventVariants ==
    << Variant("PressModifier", <<128>>, <<2>>), Variant("PressHid", <<129>>, <<2>>),
       Variant("PressConsumer", <<130>>, <<2>>), Direction("PressDirection", <<132>>),
       Variant("ReleaseModifier", <<64>>, <<2>>), Variant("ReleaseHid", <<65>>, <<2>>),
       Variant("ReleaseConsumer", <<66>>, <<2>>), Direction("ReleaseDirection", <<68>>) >>

\* BinRead of an enum: the variants are tried in order from position `pos`;
\* a variant that fails, by its magic or by an error of a read, is given up
\* and the stream is sought back to `pos`; the first variant that parses is
\* the value.  A panic is not caught.
RECURSIVE ReadVariants(_, _, _)

\* One variant tried on the reader `r`: [r, hit], hit when the variant
\* parsed or panicked, else r is sought back to `pos`.
TryVariant(r, v, pos) ==
    Let(StreamRead(r, Len(v.magic)), LAMBDA m :
        LET matched == m.err = "" /\ m.out = v.magic
        IN  Let(IF matched THEN ReadFields(m, v.fields) ELSE m, LAMBDA f :
            Let(IF matched /\ v.sub # <<>>
                THEN ReadVariants(f, v.sub, f.position) ELSE f,
            LAMBDA g :
                IF g.err = "panic" THEN [r |-> g, hit |-> TRUE]
                ELSE IF matched /\ g.err = ""
                    THEN [r |-> [g EXCEPT !.val =
                                    [name |-> v.name, fields |-> f.val,
                                     sub |-> IF v.sub # <<>> THEN g.val.name ELSE ""]],
                          hit |-> TRUE]
                ELSE [r |-> ReaderSeekStart([g EXCEPT !.err = ""], pos),
                      hit |-> FALSE])))

\* The variants lo..hi in order until one hits.
RECURSIVE TryVariants(_, _, _, _, _)
TryVariants(x, variants, pos, lo, hi) ==
    IF x.hit \/ lo > hi THEN x
    ELSE IF lo = hi THEN TryVariant(x.r, variants[lo], pos)
    ELSE Let(TryVariants(x, variants, pos, lo, Mid(lo, hi)), LAMBDA y :
             TryVariants(y, variants, pos, Mid(lo, hi) + 1, hi))

ReadVariants(r, variants, pos) ==
    IF r.err # "" THEN r
    ELSE Let(TryVariants([r |-> r, hit |-> FALSE], variants, pos, 1, Len(variants)),
         LAMBDA x : IF x.hit THEN x.r
                    ELSE [x.r EXCEPT !.err = "BinRw:NoVariantMatch"])

\* BinRead of the value types of the header slots.
ReadU8(r) == Let(ReadBytes(r, 1), LAMBDA a : [a EXCEPT !.val = a.val[1]])

ReadRawDpi(r) ==
    Let(ReadBytes(r, 2), LAMBDA a :
        [ReaderSeekCurrent(a, 1) EXCEPT !.val = [dpi_x |-> a.val[1], dpi_y |-> a.val[2]]])

ReadRawColor(r) ==
    Let(ReadBytes(r, 3), LAMBDA a :
        [a EXCEPT !.val = [red |-> a.val[1], green |-> a.val[2], blue |-> a.val[3]]])

ReadPaddedRawAction(r) ==
    Let(ReadVariants(r, RawActionVariants, r.position), LAMBDA a :
        IF a.position - r.position < 3
        THEN ReaderSeekCurrent(a, 3 - (a.position - r.position)) ELSE a)

ReadValue(r, type) ==
    CASE type = "u8" -> ReadU8(r)
      [] type = "dpi" -> ReadRawDpi(r)
      [] type = "color" -> ReadRawColor(r)
      [] type = "action" -> ReadPaddedRawAction(r)

\* BinRead of Setting<T, A> with `length`: the position is taken, the value
\* and its checksum byte are read through a fresh Stream of algorithm
\* `init`, the sum must be valid, the position is restored and the stream
\* is sought `length` bytes on.
ReadSetting(r, type, length, init) ==
    Let(ReadValue([r EXCEPT !.sum = init, !.spos = 0], type), LAMBDA v :
    Let(StreamRead(v, 1), LAMBDA c :
        LET checked == IF c.err = "" /\ ~Sum8IsValid(c.sum)
                       THEN [c EXCEPT !.err = "BinRw:Bad checksum"] ELSE c
        IN  [ReaderSeekCurrent(ReaderSeekStart(checked, r.position), length)
                EXCEPT !.val = Some(v.val)]))

(***************************************************************************)
(* BinRead of RawProfile: the header slots.                                *)
(***************************************************************************)
NUM_BUTTONS == 6

NUM_PROFILES == 4

\* A field of RawProfile: its seek_before, the type of its value and the
\* length of its Setting.
Slot(seek, type, length) == [seek |-> seek, type |-> type, length |-> length]

\* A Vec of `n` settings of length 4 after a seek to `start`.
SlotVec(start, type, n) ==
    [i \in 1..n |-> Slot(IF i = 1 THEN <<"start", start>> ELSE <<>>, type, 4)]

SlotsToDpiCount == << Slot(<<>>, "u8", 2), Slot(<<>>, "u8", 2) >>

SlotCurrentDpiIndex == << Slot(<<>>, "u8", 2) >>

SlotsAfter(count) ==
    << Slot(<<"cur", 4>>, "u8", 2) >>
        \o SlotVec(12, "dpi", count) \o SlotVec(44, "color", count)
        \o SlotVec(96, "action", NUM_BUTTONS)
        \o << Slot(<<"start", 169>>, "u8", 2), Slot(<<>>, "u8", 2),
              Slot(<<"cur", 2>>, "u8", 2), Slot(<<>>, "u8", 2),
              Slot(<<"cur", 2>>, "u8", 2), Slot(<<>>, "u8", 2), Slot(<<>>, "u8", 2) >>

ReaderSeekBefore(r, seek) ==
    IF seek = <<>> THEN r
    ELSE IF seek[1] = "cur" THEN ReaderSeekCurrent(r, seek[2])
    ELSE ReaderSeekStart(r, seek[2])

\* One setting read after its seek_before; x is the reader and the
\* Options read so far.
ReadSlot(x, slot) ==
    Let(ReadSetting(ReaderSeekBefore(x.r, slot.seek), slot.type, slot.length, Sum171),
    LAMBDA a : [r |-> a, vals |-> Append(x.vals, a.val)])

\* The settings lo..hi of `slots`, read in order until one fails.
RECURSIVE ReadSlots(_, _, _, _)
ReadSlots(x, slots, lo, hi) ==
    IF x.r.err # "" \/ lo > hi THEN x
    ELSE IF lo = hi THEN ReadSlot(x, slots[lo])
    ELSE Let(ReadSlots(x, slots, lo, Mid(lo, hi)), LAMBDA y :
             ReadSlots(y, slots, Mid(lo, hi) + 1, hi))

ReadAssert(x, holds) ==
    IF x.r.err = "" /\ ~holds THEN [x EXCEPT !.r.err = "BinRw:assert"] ELSE x

\* The RawProfile of the settings read in field order, for `count` dpis.
RawProfileOf(vals, count) ==
    LET at(i) == IF i <= Len(vals) THEN vals[i] ELSE None
        tail == 2 * count + NUM_BUTTONS
    IN  [poll_rate |-> at(1), dpi_count |-> at(2), current_dpi_index |-> at(3),
         lift_off_distance |-> at(4),
         dpis |-> [i \in 1..count |-> at(4 + i)],
         dpi_colors |-> [i \in 1..count |-> at(4 + count + i)],
         button_actions |-> [i \in 1..NUM_BUTTONS |-> at(4 + 2 * count + i)],
         debounce_ms |-> at(5 + tail), motion_sync |-> at(6 + tail),
         angle_snapping |-> at(7 + tail), ripple_control |-> at(8 + tail),
         peak_performance |-> at(9 + tail), peak_performance_time |-> at(10 + tail),
         high_performance |-> at(11 + tail),
         combos |-> <<>>, macros |-> <<>>]

\* RawProfile::read_be_args over a reader at address 0, with the
\* assertions on dpi_count and current_dpi_index.
ReadRawProfile(r) ==
    Let(ReadSlots([r |-> r, vals |-> <<>>], SlotsToDpiCount, 1, 2), LAMBDA a :
        LET count == IF a.r.err = "" THEN a.vals[2][1] ELSE 0
        IN  Let(ReadAssert(a, count \in 1..8), LAMBDA a1 :
            Let(ReadSlots(a1, SlotCurrentDpiIndex, 1, 1), LAMBDA b :
            Let(ReadAssert(b, b.vals[3][1] < 8), LAMBDA b1 :
                LET n == IF b1.r.err = "" THEN count ELSE 0
                IN  Let(ReadSlots(b1, SlotsAfter(n), 1, Len(SlotsAfter(n))), LAMBDA c :
                        [r |-> c.r, raw |-> RawProfileOf(c.vals, n)])))))

(***************************************************************************)
(* RawProfile::read_from_mouse: the header, then each combo and macro slot *)
(* through a reader of its own, without a checksum Stream.                 *)
(***************************************************************************)
\* One RawKeyEvent, followed by a big-endian u16 delay when `with_delay`
\* (RawMacroEvent); x is the reader and the events read so far.
ReadEvent(x, with_delay) ==
    Let(ReadVariants(x.r, RawKeyEventVariants, x.r.position), LAMBDA e :
    Let(IF with_delay THEN StreamRead(e, 2) ELSE e, LAMBDA d :
        [r |-> d,
         events |-> Append(x.events,
             [key_event |-> e.val,
              delay_ms |-> IF with_delay THEN d.out[1] * 256 + d.out[2] ELSE 0])]))

\* The events lo..hi, read in order until one fails.
RECURSIVE ReadEventsIn(_, _, _, _)
ReadEventsIn(x, with_delay, lo, hi) ==
    IF x.r.err # "" \/ lo > hi THEN x
    ELSE IF lo = hi THEN ReadEvent(x, with_delay)
    ELSE Let(ReadEventsIn(x, with_delay, lo, Mid(lo, hi)), LAMBDA y :
             ReadEventsIn(y, with_delay, Mid(lo, hi) + 1, hi))

\* A Vec of `n` events; r.val is the events read.
ReadEvents(r, n, with_delay) ==
    Let(ReadEventsIn([r |-> r, events |-> <<>>], with_delay, 1, n), LAMBDA x :
        [x.r EXCEPT !.val = x.events])

\* RawCombo::read_be: the number of events, the events, at most 6.
ReadRawCombo(r) ==
    Let(ReadU8(r), LAMBDA n :
    Let(ReadEvents(n, n.val, FALSE), LAMBDA e :
        IF e.err = "" /\ n.val > 6 THEN [e EXCEPT !.err = "BinRw:assert"]
        ELSE [e EXCEPT !.val = [events |-> e.val]]))

\* RawMacro::read_be: the length of the name, the name in one read of that
\* many bytes, a seek over the rest of its 30 bytes, the number of events
\* and the events, at most 70.
ReadRawMacro(r) ==
    Let(ReadU8(r), LAMBDA n :
    Let(IF n.val > 0 THEN ReaderRead(n, n.val) ELSE [n EXCEPT !.out = <<>>], LAMBDA name :
        LET padded == IF n.val < 30 THEN ReaderSeekCurrent(name, 30 - n.val) ELSE name
            checked == IF name.err = "" /\ n.val > 30
                       THEN [padded EXCEPT !.err = "BinRw:assert"] ELSE padded
        IN  Let(ReadU8(checked), LAMBDA m :
            Let(ReadEvents(m, m.val, TRUE), LAMBDA e :
                IF e.err = "" /\ m.val > 70 THEN [e EXCEPT !.err = "BinRw:assert"]
                ELSE [e EXCEPT !.val = [name |-> name.out, events |-> e.val]]))))

\* `.ok()` on the result of a slot read; a panic is not a result.
OkOf(r) == IF r.err = "" THEN Some(r.val) ELSE None

\* The body of the loop of read_from_mouse for button `i`.  x is the
\* session, the RawProfile so far and whether a read panicked.
ReadComboMacro(x, i) ==
    Let(ReadRawCombo(ProfileReaderNew(x.s, 256 + i * 32)), LAMBDA c :
        IF c.err = "panic" THEN [x EXCEPT !.s = c.s, !.panic = TRUE]
        ELSE Let(ReadRawMacro(ProfileReaderNew(c.s, 768 + i * 384)), LAMBDA m :
                 [s |-> m.s, panic |-> m.err = "panic",
                  raw |-> [x.raw EXCEPT !.combos = Append(@, OkOf(c)),
                                        !.macros = Append(@, OkOf(m))]]))

\* The loop of read_from_mouse for the buttons lo..hi.
RECURSIVE ReadCombosMacros(_, _, _)
ReadCombosMacros(x, lo, hi) ==
    IF x.panic \/ lo > hi THEN x
    ELSE IF lo = hi THEN ReadComboMacro(x, lo)
    ELSE Let(ReadCombosMacros(x, lo, Mid(lo, hi)), LAMBDA y :
             ReadCombosMacros(y, Mid(lo, hi) + 1, hi))

\* RawProfile::read_from_mouse: [s, result], the result Ok(raw profile), an
\* error of the header read, or a panic.
read_from_mouse(s, num_buttons) ==
    Let(ReadRawProfile(ProfileReaderNew(s, 0)), LAMBDA h :
        IF h.r.err = "panic" THEN [s |-> h.r.s, result |-> Panic]
        ELSE IF h.r.err # "" THEN [s |-> h.r.s, result |-> Err(h.r.err)]
        ELSE Let(ReadCombosMacros([s |-> h.r.s, panic |-> FALSE, raw |-> h.raw],
                                  0, num_buttons - 1),
             LAMBDA x : [s |-> x.s, result |-> IF x.panic THEN Panic ELSE Ok(x.raw)]))

(***************************************************************************)
(* TryFrom<RawProfile> for Profile.                                        *)
(***************************************************************************)
dpi_to_raw(dpi) == Max(dpi \div 50 - 1, 0) % 256

dpi_from_raw(raw) == (raw + 1) * 50

to_bool(byte) == byte # 0

\* Option::map
MapOpt(o, F(_)) == IF IsSome(o) THEN Some(F(o[1])) ELSE None

\* From<RawDpi> for Dpi
DpiFromRaw(raw_dpi) ==
    LET dpi_x == dpi_from_raw(raw_dpi.dpi_x)
        dpi_y == dpi_from_raw(raw_dpi.dpi_y)
    IN  IF dpi_x = dpi_y THEN [kind |-> "Linked", dpi_x |-> dpi_x, dpi_y |-> dpi_x]
        ELSE [kind |-> "Independent", dpi_x |-> dpi_x, dpi_y |-> dpi_y]

\* From<Dpi> for RawDpi
RawDpiFrom(dpi) == [dpi_x |-> dpi_to_raw(dpi.dpi_x), dpi_y |-> dpi_to_raw(dpi.dpi_y)]

ButtonIds == <<1, 2, 4, 8, 16>>

ButtonNames == <<"LeftClick", "RightClick", "MiddleClick", "BackClick", "ForwardClick">>

Unit(name) == [name |-> name, args |-> <<>>]

\* The keys of the model.  KeyModifiers gives each modifier key one bit;
\* KeyMap gives each other key its USB HID usage code.
ModifierKeys ==
    <<"ControlLeft", "ShiftLeft", "AltLeft", "MetaLeft",
      "ControlRight", "ShiftRight", "AltRight", "MetaRight">>

ModifierBits == <<1, 2, 4, 8, 16, 32, 64, 128>>

UsbKeys == <<"UsA", "UsB", "ArrowRight", "ArrowLeft", "ArrowDown", "ArrowUp">>

UsbCodes == <<4, 5, 79, 80, 81, 82>>

IndexOf(seq, v) == CHOOSE k \in DOMAIN seq : seq[k] = v

Among(seq, v) == \E k \in DOMAIN seq : seq[k] = v

\* A little-endian u16 as the two bytes of one read.
U16Le(v) == <<v % 256, v \div 256>>

KeyEvent(key, state) == [key |-> key, state |-> state]

\* From<KeyEvent> for RawKeyEvent: join of the state and From<KeyMappingId>
\* for RawKeyId, a modifier key by its bit and any other key by its code.
RawKeyEventFrom(e) ==
    LET state == IF e.state = "Pressed" THEN "Press" ELSE "Release"
    IN  IF Among(ModifierKeys, e.key)
        THEN [name |-> state \o "Modifier", sub |-> "",
              fields |-> U16Le(ModifierBits[IndexOf(ModifierKeys, e.key)])]
        ELSE [name |-> state \o "Hid", sub |-> "",
              fields |-> U16Le(UsbCodes[IndexOf(UsbKeys, e.key)])]

\* From<RawDirection> for KeyMappingId
DirectionKey(sub) ==
    CASE sub = "Left" -> "ArrowLeft"
      [] sub = "Right" -> "ArrowRight"
      [] sub = "Middle" -> "None"
      [] sub = "Back" -> "ArrowDown"
      [] sub = "Forward" -> "ArrowUp"

\* TryFrom<RawKeyEvent> for KeyEvent: split, then TryFrom<RawKeyId> for
\* KeyMappingId.  The low byte of a modifier must be exactly one modifier
\* bit, a code must be one KeyMap knows, a consumer code does not convert.
KeyEventFromRaw(e) ==
    LET pressed == e.name \in {"PressModifier", "PressHid", "PressConsumer",
                               "PressDirection"}
        state == IF pressed THEN "Pressed" ELSE "Released"
        code == e.fields[1] + 256 * e.fields[2]
    IN  IF e.name \in {"PressModifier", "ReleaseModifier"}
            THEN IF Among(ModifierBits, e.fields[1])
                 THEN Ok(KeyEvent(ModifierKeys[IndexOf(ModifierBits, e.fields[1])], state))
                 ELSE Err("InvalidConversion")
        ELSE IF e.name \in {"PressHid", "ReleaseHid"}
            THEN IF Among(UsbCodes, code)
                 THEN Ok(KeyEvent(UsbKeys[IndexOf(UsbCodes, code)], state))
                 ELSE Err("InvalidConversion")
        ELSE IF e.name \in {"PressConsumer", "ReleaseConsumer"}
            THEN Err("InvalidConversion")
        ELSE Ok(KeyEvent(DirectionKey(e.sub), state))

KeyEventConverts(e) == IsOk(KeyEventFromRaw(e))

\* From<MacroEvent> for RawMacroEvent and TryFrom<RawMacroEvent> for
\* MacroEvent, on events whose key events convert.
RawMacroEventFrom(e) ==
    [key_event |-> RawKeyEventFrom(e.key_event), delay_ms |-> e.delay_ms]

MacroEventFromRaw(e) ==
    [key_event |-> KeyEventFromRaw(e.key_event).val, delay_ms |-> e.delay_ms]

\* From<Vec<KeyEvent>> for RawCombo; a RawCombo holds its events as the
\* reader collects them, each with a delay of 0.
RawComboFrom(events) ==
    [events |-> [k \in DOMAIN events |->
                    [key_event |-> RawKeyEventFrom(events[k]), delay_ms |-> 0]]]

\* The match of raw_profile_to_actions_macros for button `i` (from 1).
ActionFromRaw(raw, i) ==
    LET a == raw.button_actions[i][1]
        n == a.name
    IN  CASE n = "Button" ->
               IF \E k \in 1..5 : ButtonIds[k] = a.fields[1]
               THEN Ok(Unit(ButtonNames[CHOOSE k \in 1..5 : ButtonIds[k] = a.fields[1]]))
               ELSE Err("InvalidConversion")
          [] n = "Fire" -> Ok([name |-> "Fire", args |-> a.fields])
          [] n = "DpiLock" -> Ok([name |-> "DpiLock", args |-> <<dpi_from_raw(a.fields[1])>>])
          [] n = "Combo" ->
               IF ~IsSome(raw.combos[i]) THEN Err("InvalidConversion")
               ELSE IF \E k \in DOMAIN raw.combos[i][1].events :
                           ~KeyEventConverts(raw.combos[i][1].events[k].key_event)
                   THEN Err("InvalidConversion")
               ELSE Ok([name |-> "Combo",
                        args |-> [k \in DOMAIN raw.combos[i][1].events |->
                            KeyEventFromRaw(raw.combos[i][1].events[k].key_event).val]])
          [] n = "Macro" ->
               IF a.fields[1] + 1 > Len(raw.macros) THEN Err("InvalidConversion")
               ELSE IF ~IsSome(raw.macros[a.fields[1] + 1]) THEN Err("InvalidConversion")
               ELSE IF \E k \in DOMAIN raw.macros[a.fields[1] + 1][1].events :
                           ~KeyEventConverts(raw.macros[a.fields[1] + 1][1].events[k].key_event)
                   THEN Err("InvalidConversion")
               ELSE Ok([name |-> "Macro", args |-> << <<>> >>])   \* name: String::new()
          [] OTHER -> Ok(Unit(n))

\* The macros inserted for the Macro actions of the buttons up to `i`, each
\* a name and its events: a later insert under the same name replaces the
\* earlier one.
RECURSIVE MacrosFromRaw(_, _)
MacrosFromRaw(raw, i) ==
    IF i = 0 THEN {}
    ELSE LET before == MacrosFromRaw(raw, i - 1)
             a == raw.button_actions[i][1]
         IN  IF a.name # "Macro" THEN before
             ELSE LET m == raw.macros[a.fields[1] + 1][1]
                  IN  {x \in before : x.name # m.name}
                          \cup {[name |-> m.name,
                                 events |-> [k \in DOMAIN m.events |->
                                                MacroEventFromRaw(m.events[k])]]}

PollRates == <<1000, 500, 250, 125>>

RawPollRates == <<1, 2, 4, 8>>

\* TryFrom<RawProfile> for Profile: the first action that does not convert
\* fails the conversion, then a raw poll rate that is none of 1, 2, 4, 8.
ProfileFromRaw(raw) ==
    LET n == Len(raw.button_actions)
        actions == [i \in 1..n |-> ActionFromRaw(raw, i)]
    IN  IF \E i \in 1..n : ~IsOk(actions[i]) THEN Err("InvalidConversion")
        ELSE IF IsSome(raw.poll_rate) /\ ~\E k \in 1..4 : RawPollRates[k] = raw.poll_rate[1]
            THEN Err("InvalidConversion")
        ELSE Ok([poll_rate |-> MapOpt(raw.poll_rate,
                     LAMBDA b : PollRates[CHOOSE k \in 1..4 : RawPollRates[k] = b]),
                 current_dpi_index |-> raw.current_dpi_index,
                 lift_off_distance |-> raw.lift_off_distance,
                 dpis |-> [i \in DOMAIN raw.dpis |-> DpiFromRaw(raw.dpis[i][1])],
                 dpi_colors |-> [i \in DOMAIN raw.dpi_colors |-> raw.dpi_colors[i][1]],
                 debounce_ms |-> raw.debounce_ms,
                 motion_sync |-> MapOpt(raw.motion_sync, to_bool),
                 angle_snapping |-> MapOpt(raw.angle_snapping, to_bool),
                 ripple_control |-> MapOpt(raw.ripple_control, to_bool),
                 peak_performance |-> MapOpt(raw.peak_performance, to_bool),
                 peak_performance_time |-> MapOpt(raw.peak_performance_time,
                                                  LAMBDA t : t * 10),
                 high_performance |-> MapOpt(raw.high_performance, to_bool),
                 button_actions |-> [i \in 1..n |-> actions[i].val],
                 macros |-> MacrosFromRaw(raw, n)])

(***************************************************************************)
(* ProfileWriter.  A writer `w` carries the session, its origin address,   *)
(* position and buffer, and the first error met.                           *)
(***************************************************************************)
ProfileWriterNew(s, address) ==
    [s |-> s, address |-> address, position |-> 0, buf |-> <<>>, err |-> "",
     wraps |-> FALSE]

\* `DATA_END - (self.address + self.position)` in usize arithmetic.  Past
\* DATA_END the subtraction overflows: a build with overflow checks panics
\* there, and a build without them (`wraps`) continues with the difference
\* modulo 2^64.  That value is only ever used through `.min(10)`, and it is
\* above 10 for every address below 2^64 - 10, so it is given as MaxData.
Remaining(h) ==
    IF h.address + h.position <= DATA_END THEN Ok(DATA_END - (h.address + h.position))
    ELSE IF h.wraps THEN Ok(MaxData)
    ELSE Panic

\* ProfileWriter::write_report: [w, result].  The answer of the mouse is
\* not inspected beyond make_request's result.
WriterWriteReport(w) ==
    LET rem == Remaining(w)
        len == IF IsOk(rem) THEN Min(Min(rem.val, MaxData), Len(w.buf)) ELSE 0
    IN  IF ~IsOk(rem) THEN [w |-> w, result |-> rem]
        ELSE IF len = 0 THEN [w |-> w, result |-> Ok(0)]
        ELSE Let(Exchange(w.s, write_profile_data(w.address + w.position,
                                                  Take(w.buf, len))),
             LAMBDA x :
                 IF IsOk(x.result)
                 THEN [w |-> [w EXCEPT !.s = x.s, !.position = @ + len,
                                       !.buf = Drop(@, len)],
                       result |-> Ok(len)]
                 ELSE [w |-> [w EXCEPT !.s = x.s], result |-> x.result])

\* Write::write of ProfileWriter with `bytes`.
WriterWrite(w, bytes) ==
    LET e == [w EXCEPT !.buf = @ \o bytes]
    IN  IF Len(e.buf) < MaxData THEN [w |-> e, result |-> Ok(Len(bytes))]
        ELSE WriterWriteReport(e)

\* Write::write_all over ProfileWriter::write: a count of 0 is an error, a
\* count above the bytes offered panics on the slice of the rest, and what
\* write reports as not written is offered again.
RECURSIVE WriterWriteAll(_, _)
WriterWriteAll(w, bytes) ==
    IF w.err # "" \/ bytes = <<>> THEN w
    ELSE Let(WriterWrite(w, bytes), LAMBDA x :
             IF x.result.kind = "panic" THEN [x.w EXCEPT !.err = "panic"]
             ELSE IF ~IsOk(x.result) THEN [x.w EXCEPT !.err = x.result.err]
             ELSE IF x.result.val = 0 THEN [x.w EXCEPT !.err = "Io:WriteZero"]
             ELSE IF x.result.val > Len(bytes) THEN [x.w EXCEPT !.err = "panic"]
             ELSE WriterWriteAll(x.w, Drop(bytes, x.result.val)))

\* Every further request of the command fails as the last one did.
FailsForever(s, cmd) ==
    /\ s.plan.kind = "unplugged"
    /\ s.plan.cmd = cmd
    /\ s.plan.nth <= CountCmd(s.log, cmd)

\* Write::flush of ProfileWriter: reports are written while the buffer is
\* not empty; only a report of 0 bytes ends the loop early, a failed report
\* is tried again.  `left` bounds the retries the model follows; a retry
\* that can only fail like the report before it is not followed, the loop
\* does not end.
RECURSIVE WriterFlushLoop(_, _)
WriterFlushLoop(w, left) ==
    IF w.buf = <<>> THEN w
    ELSE IF left = 0 THEN [w EXCEPT !.err = "hang"]
    ELSE Let(WriterWriteReport(w), LAMBDA x :
             IF x.result.kind = "panic" THEN [x.w EXCEPT !.err = "panic"]
             ELSE IF IsOk(x.result) /\ x.result.val = 0 THEN x.w
             ELSE IF ~IsOk(x.result) /\ FailsForever(x.w.s, CmdWriteProfileData)
                 THEN [x.w EXCEPT !.err = "hang"]
             ELSE WriterFlushLoop(x.w, left - 1))

\* The retries of one flush that are followed before the call counts as
\* not returning.
MaxFlushRounds == 50

WriterFlush(w) == IF w.err # "" THEN w ELSE WriterFlushLoop(w, MaxFlushRounds)

\* Seek for ProfileWriter.
WriterSeekStart(w, from_start) ==
    Let(WriterFlush(w), LAMBDA f :
        IF f.err # "" THEN f ELSE [f EXCEPT !.position = from_start])

WriterSeekCurrent(w, from_current) ==
    Let(IF from_current # 0 THEN WriterFlush(w) ELSE w, LAMBDA f :
        IF f.err # "" THEN f ELSE [f EXCEPT !.position = @ + from_current])

WriterSeekBefore(w, seek) ==
    IF seek = <<>> THEN w
    ELSE IF seek[1] = "cur" THEN WriterSeekCurrent(w, seek[2])
    ELSE WriterSeekStart(w, seek[2])

(***************************************************************************)
(* TryFrom<&Profile> for RawProfile.                                       *)
(***************************************************************************)
RawUnit(name) == [name |-> name, fields |-> <<>>, sub |-> ""]

\* The match of profile_to_raw_actions_combos_macros for one action;
\* `index` is the number of macros pushed before it.
ActionToRaw(profile, action, index) ==
    LET n == action.name
    IN  CASE \E k \in 1..5 : ButtonNames[k] = n ->
               Ok([name |-> "Button", sub |-> "",
                   fields |-> <<ButtonIds[CHOOSE k \in 1..5 : ButtonNames[k] = n]>>])
          [] n = "DpiLock" ->
               Ok([name |-> n, fields |-> <<dpi_to_raw(action.args[1])>>, sub |-> ""])
          [] n = "Fire" -> Ok([name |-> n, fields |-> action.args, sub |-> ""])
          [] n = "Macro" ->
               IF \E m \in profile.macros : m.name = action.args[1]
               THEN Ok([name |-> n, fields |-> <<index % 256>>, sub |-> ""])
               ELSE Err("InvalidConversion")
          [] OTHER -> Ok(RawUnit(n))

\* Mutant: the action counts itself among the macros pushed before it.
MacrosBeforeInclusive(profile, i) ==
    Cardinality({k \in 1..i : profile.button_actions[k].name = "Macro"})

MacrosBefore(profile, i) ==
    Cardinality({k \in 1..(i - 1) : profile.button_actions[k].name = "Macro"})

\* profile_to_raw_actions_combos_macros: the raw actions, one combo slot
\* per action (Some for a Combo action) and the macros in pushing order.
profile_to_raw_actions_combos_macros(profile) ==
    LET n == Len(profile.button_actions)
        raw == [i \in 1..n |->
                   ActionToRaw(profile, profile.button_actions[i], MacrosBefore(profile, i))]
        macro_at == SelectSeq([i \in 1..n |-> i],
                              LAMBDA i : profile.button_actions[i].name = "Macro")
    IN  IF \E i \in 1..n : ~IsOk(raw[i]) THEN Err("InvalidConversion")
        ELSE Ok([button_actions |-> [i \in 1..n |-> raw[i].val],
                 combos |-> [i \in 1..n |->
                     IF profile.button_actions[i].name = "Combo"
                     THEN Some(RawComboFrom(profile.button_actions[i].args))
                     ELSE None],
                 macros |-> [j \in 1..Len(macro_at) |->
                     LET m == CHOOSE m \in profile.macros :
                                  m.name = profile.button_actions[macro_at[j]].args[1]
                     IN  Some([name |-> m.name,
                               events |-> [k \in DOMAIN m.events |->
                                              RawMacroEventFrom(m.events[k])]])]])

\* Mutant: the end of the range is allowed.
InRangeOptInclusive(lo, hi, o) == IsSome(o) => (o[1] >= lo /\ o[1] <= hi)

\* assert_range_opt
InRangeOpt(lo, hi, o) == IsSome(o) => (o[1] >= lo /\ o[1] < hi)

\* TryFrom<&Profile> for RawProfile.
RawProfileFrom(profile) ==
    LET acm == profile_to_raw_actions_combos_macros(profile)
        count == Max(Len(profile.dpis) % 256, Len(profile.dpi_colors) % 256)
        b(o) == MapOpt(o, LAMBDA v : IF v THEN 1 ELSE 0)
    IN  IF ~(/\ Len(profile.dpis) < 9
             /\ Len(profile.dpi_colors) < 9
             /\ Len(profile.button_actions) < 17
             /\ InRangeOpt(0, 8, profile.current_dpi_index)
             /\ InRangeOpt(0, 2, profile.lift_off_distance)
             /\ InRangeOpt(0, 16, profile.debounce_ms)
             /\ InRangeOpt(0, 2551, profile.peak_performance_time))
            THEN Err("InvalidConversion")
        ELSE IF ~IsOk(acm) THEN acm
        ELSE IF IsSome(profile.poll_rate) /\ ~\E k \in 1..4 : PollRates[k] = profile.poll_rate[1]
            THEN Err("InvalidConversion")
        ELSE Ok([poll_rate |-> MapOpt(profile.poll_rate,
                     LAMBDA p : RawPollRates[CHOOSE k \in 1..4 : PollRates[k] = p]),
                 dpi_count |-> IF count > 0 THEN Some(count) ELSE None,
                 current_dpi_index |-> MapOpt(profile.current_dpi_index, LAMBDA i : i % 256),
                 lift_off_distance |-> profile.lift_off_distance,
                 dpis |-> [i \in DOMAIN profile.dpis |-> Some(RawDpiFrom(profile.dpis[i]))],
                 dpi_colors |-> [i \in DOMAIN profile.dpi_colors |-> Some(profile.dpi_colors[i])],
                 button_actions |-> [i \in DOMAIN acm.val.button_actions |->
                                        Some(acm.val.button_actions[i])],
                 debounce_ms |-> profile.debounce_ms,
                 motion_sync |-> b(profile.motion_sync),
                 angle_snapping |-> b(profile.angle_snapping),
                 ripple_control |-> b(profile.ripple_control),
                 peak_performance |-> b(profile.peak_performance),
                 peak_performance_time |-> MapOpt(profile.peak_performance_time,
                                                  LAMBDA t : (t \div 10) % 256),
                 high_performance |-> b(profile.high_performance),
                 combos |-> acm.val.combos, macros |-> acm.val.macros])

(***************************************************************************)
(* BinWrite of RawProfile and RawProfile::write_to_mouse.                  *)
(***************************************************************************)
\* BinWrite of the value types: the writes they make, in order.
U8Chunks(v) == << <<v>> >>

RawDpiChunks(d) == << <<d.dpi_x>>, <<d.dpi_y>>, <<0>> >>

RawColorChunks(c) == << <<c.red>>, <<c.green>>, <<c.blue>> >>

MagicOf(variants, name) ==
    variants[CHOOSE k \in DOMAIN variants : variants[k].name = name].magic

\* Mutant: the action is padded to four bytes.
PaddedRawActionChunksWide(a) ==
    LET body == <<MagicOf(RawActionVariants, a.name)>>
                    \o [i \in DOMAIN a.fields |-> <<a.fields[i]>>]
        size == Len(MagicOf(RawActionVariants, a.name)) + Len(a.fields)
    IN  Append(body, Zeros(4 - size))

PaddedRawActionChunks(a) ==
    LET body == <<MagicOf(RawActionVariants, a.name)>>
                    \o [i \in DOMAIN a.fields |-> <<a.fields[i]>>]
        size == Len(MagicOf(RawActionVariants, a.name)) + Len(a.fields)
    IN  IF size < 3 THEN Append(body, Zeros(3 - size)) ELSE body

RawKeyEventChunks(e) ==
    << MagicOf(RawKeyEventVariants, e.name),
       IF e.sub # "" THEN MagicOf(RawDirectionVariants, e.sub) ELSE e.fields >>

RECURSIVE Flatten(_)
Flatten(chunks) ==
    IF chunks = <<>> THEN <<>> ELSE Head(chunks) \o Flatten(Tail(chunks))

RawComboChunks(c) ==
    << <<Len(c.events)>> >>
        \o Flatten([i \in DOMAIN c.events |-> RawKeyEventChunks(c.events[i].key_event)])

RawMacroChunks(m) ==
    << <<Len(m.name)>> >>
        \o (IF m.name = <<>> THEN <<>> ELSE <<m.name>>)
        \o (IF Len(m.name) < 30 THEN <<Zeros(30 - Len(m.name))>> ELSE <<>>)
        \o << <<Len(m.events)>> >>
        \o Flatten([i \in DOMAIN m.events |->
               Append(RawKeyEventChunks(m.events[i].key_event),
                      <<m.events[i].delay_ms \div 256, m.events[i].delay_ms % 256>>)])

RECURSIVE WriteChunksIn(_, _, _, _)
WriteChunksIn(w, chunks, lo, hi) ==
    IF w.err # "" \/ lo > hi THEN w
    ELSE IF lo = hi THEN WriterWriteAll(w, chunks[lo])
    ELSE Let(WriteChunksIn(w, chunks, lo, Mid(lo, hi)), LAMBDA y :
             WriteChunksIn(y, chunks, Mid(lo, hi) + 1, hi))

WriteChunks(w, chunks) == WriteChunksIn(w, chunks, 1, Len(chunks))

\* Mutant: an absent value is padded with zeros.
WriteSettingZeroFill(w, inner, length, init) ==
    LET pos == w.position
    IN  Let(IF IsSome(inner)
            THEN WriterWriteAll(WriteChunks(w, inner[1]),
                                <<Sum8Finish(Sum8Write(init, Flatten(inner[1])))>>)
            ELSE WriterWriteAll(w, Zeros(length)),
        LAMBDA v : WriterSeekCurrent(WriterSeekStart(v, pos), length))

\* BinWrite of Setting<T, A> with `length`: the position is taken; a present
\* value is written through a fresh Stream of algorithm `init`, followed
\* by the finished sum; the position is restored and the stream is sought
\* `length` bytes on.
WriteSetting(w, inner, length, init) ==
    LET pos == w.position
    IN  Let(IF IsSome(inner)
            THEN WriterWriteAll(WriteChunks(w, inner[1]),
                                <<Sum8Finish(Sum8Write(init, Flatten(inner[1])))>>)
            ELSE w,
        LAMBDA v : WriterSeekCurrent(WriterSeekStart(v, pos), length))

\* A field of RawProfile for writing: its assertion, its seek_before and
\* its settings.
Field(holds, seek, length, init, items) ==
    [holds |-> holds, seek |-> seek, length |-> length, init |-> init, items |-> items]

FieldsOf(raw, num_buttons) ==
    LET one(o) == <<MapOpt(o, U8Chunks)>>
        unwrap_or(o, d) == IF IsSome(o) THEN o[1] ELSE d
    IN  << Field(TRUE, <<>>, 2, Sum171, one(raw.poll_rate)),
           Field(unwrap_or(raw.dpi_count, 1) \in 1..8, <<>>, 2, Sum171, one(raw.dpi_count)),
           Field(unwrap_or(raw.current_dpi_index, 0) < 8, <<>>, 2, Sum171,
                 one(raw.current_dpi_index)),
           Field(TRUE, <<"cur", 4>>, 2, Sum171, one(raw.lift_off_distance)),
           Field(Len(raw.dpis) <= 8, <<"start", 12>>, 4, Sum171,
                 [i \in DOMAIN raw.dpis |-> MapOpt(raw.dpis[i], RawDpiChunks)]),
           Field(Len(raw.dpi_colors) <= 8, <<"start", 44>>, 4, Sum171,
                 [i \in DOMAIN raw.dpi_colors |-> MapOpt(raw.dpi_colors[i], RawColorChunks)]),
           Field(Len(raw.button_actions) <= num_buttons, <<"start", 96>>, 4, Sum171,
                 [i \in DOMAIN raw.button_actions |->
                     MapOpt(raw.button_actions[i], PaddedRawActionChunks)]),
           Field(TRUE, <<"start", 169>>, 2, Sum171, one(raw.debounce_ms)),
           Field(TRUE, <<>>, 2, Sum171, one(raw.motion_sync)),
           Field(TRUE, <<"cur", 2>>, 2, Sum171, one(raw.angle_snapping)),
           Field(TRUE, <<>>, 2, Sum171, one(raw.ripple_control)),
           Field(TRUE, <<"cur", 2>>, 2, Sum171, one(raw.peak_performance)),
           Field(TRUE, <<>>, 2, Sum171, one(raw.peak_performance_time)),
           Field(TRUE, <<>>, 2, Sum171, one(raw.high_performance)),
           Field(Len(raw.combos) <= num_buttons
                     /\ \A i \in DOMAIN raw.combos :
                            IsSome(raw.combos[i]) => Len(raw.combos[i][1].events) <= 6,
                 <<"start", 256>>, 32, Sum171,
                 [i \in DOMAIN raw.combos |-> MapOpt(raw.combos[i], RawComboChunks)]),
           Field(Len(raw.macros) <= num_buttons
                     /\ \A i \in DOMAIN raw.macros :
                            IsSome(raw.macros[i]) =>
                                Len(raw.macros[i][1].name) <= 30
                                    /\ Len(raw.macros[i][1].events) <= 70,
                 <<"start", 768>>, 384, Sum181,
                 [i \in DOMAIN raw.macros |-> MapOpt(raw.macros[i], RawMacroChunks)]) >>

\* The items lo..hi of the field `f`.
RECURSIVE WriteItems(_, _, _, _)
WriteItems(w, f, lo, hi) ==
    IF w.err # "" \/ lo > hi THEN w
    ELSE IF lo = hi THEN WriteSetting(w, f.items[lo], f.length, f.init)
    ELSE Let(WriteItems(w, f, lo, Mid(lo, hi)), LAMBDA y :
             WriteItems(y, f, Mid(lo, hi) + 1, hi))

\* A field: the seek_before, the assertion, the items.
WriteField(w, f) ==
    Let(WriterSeekBefore(w, f.seek), LAMBDA sought :
        IF sought.err = "" /\ ~f.holds THEN [sought EXCEPT !.err = "BinRw:assert"]
        ELSE WriteItems(sought, f, 1, Len(f.items)))

\* The fields lo..hi in order until one fails.
RECURSIVE WriteFields(_, _, _, _)
WriteFields(w, fields, lo, hi) ==
    IF w.err # "" \/ lo > hi THEN w
    ELSE IF lo = hi THEN WriteField(w, fields[lo])
    ELSE Let(WriteFields(w, fields, lo, Mid(lo, hi)), LAMBDA y :
             WriteFields(y, fields, Mid(lo, hi) + 1, hi))

\* RawProfile::write_to_mouse: write_be_args over a writer at address 0,
\* which is then dropped and flushes what it still buffers.
write_to_mouse(s, raw, num_buttons) ==
    Let(WriteFields(ProfileWriterNew(s, 0), FieldsOf(raw, num_buttons), 1,
                    Len(FieldsOf(raw, num_buttons))), LAMBDA w :
    Let(WriterFlushLoop(w, MaxFlushRounds), LAMBDA dropped :
        [s |-> dropped.s,
         result |-> IF "hang" \in {w.err, dropped.err} THEN Hang
                    ELSE IF "panic" \in {w.err, dropped.err} THEN Panic
                    ELSE IF w.err # "" THEN Err(w.err)
                    ELSE Ok(<<>>)]))

(***************************************************************************)
(* The facade: impl Mouse for Atlantis.  Every operation takes the session *)
(* and gives [s, result].                                                  *)
(***************************************************************************)
Ret(s, result) == [s |-> s, result |-> result]

active_profile_index(s) ==
    Let(Exchange(s, read_active_profile), LAMBDA x :
        LET d == into_data(x.result)
        IN  IF ~IsOk(d) THEN Ret(x.s, d)
            ELSE IF d.val = <<>> THEN Ret(x.s, Panic)      \* [0] of no data
            ELSE Ret(x.s, Ok(d.val[1])))

\* Mutant: the index is not checked.
set_active_profile_index_unchecked(s, index) ==
    Let(Exchange(s, write_active_profile(index % 256)), LAMBDA x :
        LET d == into_data(x.result)
        IN  Ret(x.s, IF IsOk(d) THEN Ok(<<>>) ELSE d))

set_active_profile_index(s, index) ==
    IF index < 4
    THEN Let(Exchange(s, write_active_profile(index % 256)), LAMBDA x :
             LET d == into_data(x.result)
             IN  Ret(x.s, IF IsOk(d) THEN Ok(<<>>) ELSE d))
    ELSE Ret(s, Err("InvalidConversion"))

\* Mutant: the switch is made also to the active index.
SwitchToAlways(s, active_profile, index) == set_active_profile_index(s, index)

\* `if active_profile != index { set_active_profile_index(index)? }`
SwitchTo(s, active_profile, index) ==
    IF active_profile # index THEN set_active_profile_index(s, index)
    ELSE Ret(s, Ok(<<>>))

profile(s, index) ==
    Let(active_profile_index(s), LAMBDA a :
        IF ~IsOk(a.result) THEN a
        ELSE Let(SwitchTo(a.s, a.result.val, index), LAMBDA to :
             IF ~IsOk(to.result) THEN to
             ELSE Let(read_from_mouse(to.s, NUM_BUTTONS), LAMBDA rd :
                  IF ~IsOk(rd.result) THEN rd
                  ELSE Let(SwitchTo(rd.s, index, a.result.val), LAMBDA back :
                       IF ~IsOk(back.result) THEN back
                       ELSE Ret(back.s, ProfileFromRaw(rd.result.val))))))

max_poll_rate(product) == IF product = "AtlantisWireless4K" THEN 4000 ELSE 1000

\* The profile set_profile converts: a poll rate above the product's
\* maximum is reduced to it.
Capped(product, p) ==
    IF IsSome(p.poll_rate) /\ p.poll_rate[1] > max_poll_rate(product)
    THEN [p EXCEPT !.poll_rate = Some(max_poll_rate(product))] ELSE p

set_profile(s, product, index, p) ==
    Let(active_profile_index(s), LAMBDA a :
        IF ~IsOk(a.result) THEN a
        ELSE Let(SwitchTo(a.s, a.result.val, index), LAMBDA to :
             LET raw == RawProfileFrom(Capped(product, p))
             IN  IF ~IsOk(to.result) THEN to
                 ELSE IF ~IsOk(raw) THEN Ret(to.s, raw)
                 ELSE Let(write_to_mouse(to.s, raw.val, NUM_BUTTONS), LAMBDA wr :
                      IF ~IsOk(wr.result) THEN wr
                      ELSE SwitchTo(wr.s, index, a.result.val))))

\* The closure of profiles for the indices from `i` on, collected into a
\* Result: the first error ends the iteration.
RECURSIVE CollectProfiles(_, _, _)
CollectProfiles(s, i, acc) ==
    IF i = NUM_PROFILES THEN Ret(s, Ok(acc))
    ELSE Let(set_active_profile_index(s, i), LAMBDA to :
             IF ~IsOk(to.result) THEN to
             ELSE Let(read_from_mouse(to.s, NUM_BUTTONS), LAMBDA rd :
                  IF ~IsOk(rd.result) THEN rd
                  ELSE LET p == ProfileFromRaw(rd.result.val)
                       IN  IF ~IsOk(p) THEN Ret(rd.s, p)
                           ELSE CollectProfiles(rd.s, i + 1, Append(acc, p.val))))

Returns(result) == result.kind \in {"ok", "err"}

profiles(s) ==
    Let(active_profile_index(s), LAMBDA a :
        IF ~IsOk(a.result) THEN a
        ELSE Let(CollectProfiles(a.s, 0, <<>>), LAMBDA all :
             IF ~Returns(all.result) THEN all
             ELSE Let(set_active_profile_index(all.s, a.result.val), LAMBDA back :
                  IF ~IsOk(back.result) THEN back
                  ELSE Ret(back.s, all.result))))

\* The loop of set_profiles from the i-th profile (from 0) on.
RECURSIVE WriteProfiles(_, _, _)
WriteProfiles(s, ps, i) ==
    IF i = Len(ps) THEN Ret(s, Ok(<<>>))
    ELSE Let(set_active_profile_index(s, i), LAMBDA to :
             LET raw == RawProfileFrom(ps[i + 1])
             IN  IF ~IsOk(to.result) THEN to
                 ELSE IF ~IsOk(raw) THEN Ret(to.s, raw)
                 ELSE Let(write_to_mouse(to.s, raw.val, NUM_BUTTONS), LAMBDA wr :
                      IF ~IsOk(wr.result) THEN wr
                      ELSE WriteProfiles(wr.s, ps, i + 1)))

set_profiles(s, ps) ==
    Let(active_profile_index(s), LAMBDA a :
        IF ~IsOk(a.result) THEN a
        ELSE Let(WriteProfiles(a.s, ps, 0), LAMBDA all :
             IF ~IsOk(all.result) THEN all
             ELSE set_active_profile_index(all.s, a.result.val)))

(***************************************************************************)
(* Memory images of the mouse.                                             *)
(***************************************************************************)
\* A slot as it lies in memory: the value bytes and the byte that makes
\* seed + sum = 0 modulo 256.
StoredSlot(init, value) == Append(value, (0 - init - SumSeq(value)) % 256)

\* The memory that holds the slots, each an address and its bytes.
MemOf(slots) ==
    LET Covers(i) == slots[i][1]..(slots[i][1] + Len(slots[i][2]) - 1)
    IN  [a \in UNION {Covers(i) : i \in DOMAIN slots} |->
            LET i == CHOOSE k \in DOMAIN slots : a \in Covers(k)
            IN  slots[i][2][a - slots[i][1] + 1]]

\* A configured profile: poll rate 1000 or 500 Hz, two dpi stages, the five
\* buttons and a dpi loop, no combos and no macros (zero lengths).
ImageSlots(poll) ==
    << <<0, StoredSlot(Sum171, <<poll>>)>>,        \* poll_rate
       <<2, StoredSlot(Sum171, <<2>>)>>,           \* dpi_count
       <<4, StoredSlot(Sum171, <<1>>)>>,           \* current_dpi_index
       <<10, StoredSlot(Sum171, <<1>>)>>,          \* lift_off_distance
       <<12, StoredSlot(Sum171, <<15, 15, 0>>)>>,  \* dpis
       <<16, StoredSlot(Sum171, <<31, 23, 0>>)>>,
       <<44, StoredSlot(Sum171, <<255, 0, 0>>)>>,  \* dpi_colors
       <<48, StoredSlot(Sum171, <<0, 0, 255>>)>>,
       <<96, StoredSlot(Sum171, <<1, 1, 0>>)>>,    \* button_actions
       <<100, StoredSlot(Sum171, <<1, 2, 0>>)>>,
       <<104, StoredSlot(Sum171, <<1, 4, 0>>)>>,
       <<108, StoredSlot(Sum171, <<1, 8, 0>>)>>,
       <<112, StoredSlot(Sum171, <<1, 16, 0>>)>>,
       <<116, StoredSlot(Sum171, <<2, 1, 0>>)>>,
       <<169, StoredSlot(Sum171, <<4>>)>>,         \* debounce_ms
       <<171, StoredSlot(Sum171, <<1>>)>>,         \* motion_sync
       <<175, StoredSlot(Sum171, <<0>>)>>,         \* angle_snapping
       <<177, StoredSlot(Sum171, <<0>>)>>,         \* ripple_control
       <<181, StoredSlot(Sum171, <<1>>)>>,         \* peak_performance
       <<183, StoredSlot(Sum171, <<3>>)>>,         \* peak_performance_time
       <<185, StoredSlot(Sum171, <<0>>)>> >>       \* high_performance
    \o [i \in 1..NUM_BUTTONS |-> <<256 + (i - 1) * 32, StoredSlot(Sum171, <<0>>)>>]
    \o [i \in 1..NUM_BUTTONS |-> <<768 + (i - 1) * 384, <<0>>>>]
    \o [i \in 1..NUM_BUTTONS |-> <<768 + (i - 1) * 384 + 31, StoredSlot(Sum181, <<0>>)>>]

Image(poll) == MemOf(ImageSlots(poll))

\* The addresses of the header slots of an image with two dpi stages, and
\* the address of each slot's checksum byte.
HeaderSlotAt == {0, 2, 4, 10, 12, 16, 44, 48, 96, 100, 104, 108, 112, 116,
                 169, 171, 175, 177, 181, 183, 185}

SlotLength(at) == IF at \in 12..119 THEN 4 ELSE 2

ChecksumAt(at) == at + SlotLength(at) - 1

Session(a, m, plan) == [active |-> a, mem |-> m, log |-> <<>>, plan |-> plan]

(***************************************************************************)
(* The encoding specification: a profile is converted and written to a     *)
(* mouse whose memory is blank.                                            *)
(***************************************************************************)
EmptyProfile ==
    [poll_rate |-> None, current_dpi_index |-> None, lift_off_distance |-> None,
     debounce_ms |-> None, motion_sync |-> None, angle_snapping |-> None,
     ripple_control |-> None, peak_performance |-> None,
     peak_performance_time |-> None, high_performance |-> None,
     dpis |-> <<>>, dpi_colors |-> <<>>, button_actions |-> <<>>, macros |-> {}]

Linked(dpi) == [kind |-> "Linked", dpi_x |-> dpi, dpi_y |-> dpi]

Independent(x, y) == [kind |-> "Independent", dpi_x |-> x, dpi_y |-> y]

Color(r, g, b) == [red |-> r, green |-> g, blue |-> b]

SampleActions ==
    { <<>>,
      <<Unit("LeftClick"), Unit("DpiLoop"), [name |-> "Fire", args |-> <<3, 2>>]>>,
      <<Unit("Disabled"), Unit("RightClick"), Unit("WheelUp"),
        [name |-> "DpiLock", args |-> <<400>>], Unit("PollRateLoop"), Unit("ForwardClick")>> }

EncodeProfiles ==
    {[EmptyProfile EXCEPT !.poll_rate = pr, !.dpis = d, !.dpi_colors = c,
                          !.button_actions = b, !.debounce_ms = db,
                          !.motion_sync = ms] :
        pr \in {None, Some(1000), Some(500), Some(125), Some(300)},
        d \in {<<>>, <<Linked(800)>>, <<Linked(1600), Independent(800, 1200)>>},
        c \in {<<>>, <<Color(255, 0, 0)>>},
        b \in SampleActions,
        db \in {None, Some(4), Some(16)},
        ms \in {None, Some(TRUE)}}

InitEncode ==
    /\ active = 0
    /\ mem = NoMem
    /\ call \in {[op |-> "args", profile |-> p] : p \in EncodeProfiles}

\* `RawProfile::try_from(&profile)?.write_to_mouse(device, NUM_BUTTONS)`
WriteToMouse ==
    /\ call.op = "args"
    /\ \E x \in {LET raw == RawProfileFrom(call.profile)
                     s == Session(active, mem, NoFailure)
                 IN  IF IsOk(raw) THEN write_to_mouse(s, raw.val, NUM_BUTTONS)
                     ELSE Ret(s, raw)} :
           /\ active' = x.s.active
           /\ mem' = x.s.mem
           /\ call' = [op |-> "write_to_mouse", profile |-> call.profile,
                       log |-> x.s.log, result |-> x.result]

NextEncode == WriteToMouse

SpecEncode == InitEncode /\ [][NextEncode]_vars

Written == call.op = "write_to_mouse" /\ IsOk(call.result)

\* The slots of the header end before address 187.
HeaderWrites == {i \in DOMAIN call.log : call.log[i].address < 187}

LastByte(data) == data[Len(data)]

ButLast(data) == SubSeq(data, 1, Len(data) - 1)

DecodeAddresses == 0..189 \cup {256, 257, 768, 799, 800}

\* What is added to the byte; 0 leaves the image as configured.
DecodeDeltas == {0, 1, 128}

DecodeArgs ==
    {[op |-> "args", poll |-> p, at |-> a, delta |-> d] :
        p \in {1, 2}, a \in DecodeAddresses, d \in DecodeDeltas}

\* The configured image with the byte at `at` raised by `delta`.
Damaged(poll, at, delta) ==
    MemWrite(Image(poll), at, <<(MemGet(Image(poll), at) + delta) % 256>>)

InitDecode ==
    /\ active = 0
    /\ call \in DecodeArgs
    /\ mem = [NoMem EXCEPT ![0] = Damaged(call.poll, call.at, call.delta)]

\* `RawProfile::read_from_mouse(device, NUM_BUTTONS)?.try_into()`
ReadFromMouse ==
    /\ call.op = "args"
    /\ \E x \in {read_from_mouse(Session(active, mem, NoFailure), NUM_BUTTONS)} :
           /\ active' = x.s.active
           /\ mem' = x.s.mem
           /\ call' = [op |-> "read_from_mouse", poll |-> call.poll, at |-> call.at,
                       delta |-> call.delta, log |-> x.s.log, result |-> x.result,
                       profile |-> IF IsOk(x.result) THEN ProfileFromRaw(x.result.val)
                                   ELSE x.result]

NextDecode == ReadFromMouse

SpecDecode == InitDecode /\ [][NextDecode]_vars

Decoded == call.op = "read_from_mouse"

\* The byte changed is the checksum byte of a header slot.
BadHeaderChecksum ==
    call.delta # 0 /\ \E a \in HeaderSlotAt : call.at = ChecksumAt(a)

\* The settings of the header of a raw profile by slot address.
HeaderSettings(raw) ==
    [a \in HeaderSlotAt |->
        CASE a = 0 -> raw.poll_rate
          [] a = 2 -> raw.dpi_count
          [] a = 4 -> raw.current_dpi_index
          [] a = 10 -> raw.lift_off_distance
          [] a \in 12..43 -> raw.dpis[(a - 12) \div 4 + 1]
          [] a \in 44..95 -> raw.dpi_colors[(a - 44) \div 4 + 1]
          [] a \in 96..168 -> raw.button_actions[(a - 96) \div 4 + 1]
          [] a = 169 -> raw.debounce_ms
          [] a = 171 -> raw.motion_sync
          [] a = 175 -> raw.angle_snapping
          [] a = 177 -> raw.ripple_control
          [] a = 181 -> raw.peak_performance
          [] a = 183 -> raw.peak_performance_time
          [] a = 185 -> raw.high_performance]

\* C10 as stated: with the checksum byte of one header slot wrong, the read
\* succeeds, the field of that slot is None and every other field of the
\* header carries its value.
C10_BadSlotIsNone ==
    (Decoded /\ BadHeaderChecksum) =>
        /\ IsOk(call.result)
        /\ IsOk(call.profile)
        /\ \A a \in HeaderSlotAt :
               IsSome(HeaderSettings(call.result.val)[a]) <=> call.at # ChecksumAt(a)

\* C10, amended: with the checksum byte of one header slot wrong, the read
\* fails with the error "Bad checksum" after reading no slot beyond the bad
\* one; the image as configured reads with every header field present; and
\* a first combo slot that does not decode is read as None without failing
\* the read.
C10_BadSlotFailsRead ==
    Decoded =>
        /\ BadHeaderChecksum =>
               /\ call.result = Err("BinRw:Bad checksum")
               /\ \A i \in DOMAIN call.log :
                      /\ call.log[i].cmd = CmdReadProfileData
                      /\ call.log[i].address <= call.at
        /\ call.delta = 0 =>
               /\ IsOk(call.result)
               /\ \A a \in HeaderSlotAt : IsSome(HeaderSettings(call.result.val)[a])
        /\ (call.delta # 0 /\ call.at = 256) =>
               /\ IsOk(call.result)
               /\ call.result.val.combos[1] = None
               /\ \A a \in HeaderSlotAt : IsSome(HeaderSettings(call.result.val)[a])

\* The checksum byte of poll_rate at address 1 was wrong and the read
\* failed after the one request that fetched it.
C10_Witness ==
    /\ Decoded
    /\ call.at = 1
    /\ call.delta # 0
    /\ call.result = Err("BinRw:Bad checksum")
    /\ Len(call.log) = 1

\* The byte changed is the stored checksum byte of the first combo slot or
\* of the first macro slot; every other byte of the slot is as configured.
BadComboChecksum == call.delta # 0 /\ call.at = 257

BadMacroChecksum == call.delta # 0 /\ call.at = 800

\* C11 as stated: a combo slot or a macro slot whose stored checksum byte
\* does not validate is decoded as absent: the read succeeds and the slot is
\* None.
C11_BadChecksumIsAbsent ==
    Decoded =>
        /\ BadComboChecksum => IsOk(call.result) /\ call.result.val.combos[1] = None
        /\ BadMacroChecksum => IsOk(call.result) /\ call.result.val.macros[1] = None

\* The checksum byte of the first combo slot was wrong and the slot was
\* decoded as a present combo of no events.
C11_Witness ==
    /\ Decoded
    /\ BadComboChecksum
    /\ IsOk(call.result)
    /\ call.result.val.combos[1] = Some([events |-> <<>>])

(***************************************************************************)
(* The facade specification: one call of an operation of the facade on a   *)
(* mouse whose four profiles are configured, with at most one failure of   *)
(* the transport or the mouse during the call.  First the calls that read: *)
(* profile, profiles, active_profile_index, set_active_profile_index.      *)
(***************************************************************************)
\* The poll rate byte of the image in each profile memory.
ImagePolls == <<1, 2, 4, 8>>

Images == [p \in 0..3 |-> Image(ImagePolls[p + 1])]

\* The ways one request fails.
FailureKinds == {"hid", "mouseerr", "noresp", "badsum"}

\* The failures of a reading call: of a ReadProfileData request, of which
\* the header of an image takes 28, the combo slots one each and the macro
\* slots two each, so that the 29th reads the first combo slot and the 35th
\* the first macro slot; of the ReadActiveProfile request; of the first or
\* second WriteActiveProfile request.
ReadFailures ==
    {NoFailure}
    \cup {[cmd |-> CmdReadProfileData, nth |-> n, kind |-> k] :
              n \in {1, 28, 29, 35},
              k \in FailureKinds}
    \cup {[cmd |-> CmdReadActiveProfile, nth |-> 1, kind |-> k] : k \in FailureKinds}
    \cup {[cmd |-> CmdWriteActiveProfile, nth |-> n, kind |-> k] :
              n \in {1, 2}, k \in FailureKinds}

ProfileArgs ==
    {[op |-> "args", fn |-> f, product |-> "AtlantisWired", index |-> i,
      profiles |-> <<>>, plan |-> q] :
        f \in {"profile", "set_active_profile_index"}, i \in 0..4, q \in ReadFailures}
    \cup {[op |-> "args", fn |-> f, product |-> "AtlantisWired", index |-> 0,
           profiles |-> <<>>, plan |-> q] :
        f \in {"profiles", "active_profile_index"}, q \in ReadFailures}

\* The arguments are those of a call of `fn`.
Calls(fn) == call.op = "args" /\ call.fn = fn

\* The call made, with the active index before it, the requests it issued
\* and its result.
Called(x) ==
    /\ active' = x.s.active
    /\ mem' = x.s.mem
    /\ call' = [call EXCEPT !.op = "done"]
                   @@ [was |-> active, log |-> x.s.log, result |-> x.result]

GetProfile ==
    /\ Calls("profile")
    /\ \E x \in {profile(Session(active, mem, call.plan), call.index)} : Called(x)

GetProfiles ==
    /\ Calls("profiles")
    /\ \E x \in {profiles(Session(active, mem, call.plan))} : Called(x)

GetActiveProfileIndex ==
    /\ Calls("active_profile_index")
    /\ \E x \in {active_profile_index(Session(active, mem, call.plan))} : Called(x)

SetActiveProfileIndex ==
    /\ Calls("set_active_profile_index")
    /\ \E x \in {set_active_profile_index(Session(active, mem, call.plan), call.index)} :
           Called(x)

ReadCalled == call.op = "done" /\ call.fn \in {"profile", "profiles"}

\* The failure of the plan was injected: the call issued the request that
\* the plan names.
Injected == call.plan.kind # "none" /\ CountCmd(call.log, call.plan.cmd) >= call.plan.nth

\* The requests of the call with command `cmd`, in order.
RequestsOf(cmd) == SelectSeq(call.log, LAMBDA rq : rq.cmd = cmd)

\* The request that failed.
FailedRequest == RequestsOf(call.plan.cmd)[call.plan.nth]

\* C12 as stated: a failure of a ReadProfileData request during profile or
\* profiles, a request that reads a combo slot or a macro slot included,
\* makes the call return an error.
C12_ReadFailureIsError ==
    (ReadCalled /\ Injected /\ call.plan.cmd = CmdReadProfileData) =>
        call.result.kind = "err"

\* The request that reads the first combo slot (address 256) failed in the
\* HID layer, and profile returned a Profile after reading the slots that
\* follow.
C12_Witness ==
    /\ call.op = "done"
    /\ call.fn = "profile"
    /\ Injected
    /\ call.plan.kind = "hid"
    /\ FailedRequest.cmd = CmdReadProfileData
    /\ FailedRequest.address = 256
    /\ IsOk(call.result)
    /\ Len(RequestsOf(CmdReadProfileData)) = 46

(***************************************************************************)
(* The calls of the facade that write, set_profile and set_profiles, and    *)
(* the facade specification.                                               *)
(***************************************************************************)
Products == {"AtlantisWireless1K", "AtlantisWireless4K", "AtlantisWired"}

\* The name "m1".
MacroName == <<109, 49>>

MacroAction(name) == [name |-> "Macro", args |-> <<name>>]

MacroEvent(key, state, delay_ms) ==
    [key_event |-> KeyEvent(key, state), delay_ms |-> delay_ms]

SampleMacro ==
    [name |-> MacroName,
     events |-> <<MacroEvent("UsA", "Pressed", 300), MacroEvent("UsA", "Released", 10)>>]

Combo(events) == [name |-> "Combo", args |-> events]

SampleCombo == Combo(<<KeyEvent("ControlLeft", "Pressed"), KeyEvent("UsB", "Pressed")>>)

LongCombo ==
    Combo(<<KeyEvent("ControlLeft", "Pressed"), KeyEvent("UsB", "Pressed"),
            KeyEvent("UsB", "Released"), KeyEvent("ControlLeft", "Released")>>)

\* A profile with every field populated and a combo of two events on the
\* third button.
FullProfile ==
    [poll_rate |-> Some(1000), current_dpi_index |-> Some(1),
     lift_off_distance |-> Some(1), debounce_ms |-> Some(4),
     motion_sync |-> Some(TRUE), angle_snapping |-> Some(FALSE),
     ripple_control |-> Some(FALSE), peak_performance |-> Some(TRUE),
     peak_performance_time |-> Some(30), high_performance |-> Some(FALSE),
     dpis |-> <<Linked(800), Independent(800, 1200)>>,
     dpi_colors |-> <<Color(255, 0, 0), Color(0, 0, 255)>>,
     button_actions |-> <<Unit("LeftClick"), Unit("RightClick"), SampleCombo,
                          Unit("ForwardClick"), Unit("DpiLoop"),
                          [name |-> "Fire", args |-> <<3, 2>>]>>,
     macros |-> {}]

\* The full profile with a macro on the fourth button.
MacroProfile ==
    [FullProfile EXCEPT !.button_actions[4] = MacroAction(MacroName),
                        !.macros = {SampleMacro}]

\* The name "m2" and a second macro.
SecondName == <<109, 50>>

SecondMacro ==
    [name |-> SecondName,
     events |-> <<MacroEvent("ArrowUp", "Pressed", 20), MacroEvent("UsB", "Pressed", 0),
                  MacroEvent("ArrowUp", "Released", 1000)>>]

\* A profile with three Macro actions over two macros, two combos and a
\* middle click.
TwoMacroProfile ==
    [FullProfile EXCEPT
        !.button_actions = <<Unit("MiddleClick"), MacroAction(SecondName), SampleCombo,
                             MacroAction(MacroName), LongCombo, MacroAction(SecondName)>>,
        !.macros = {SampleMacro, SecondMacro}]

PollOnly(rate) == [EmptyProfile EXCEPT !.poll_rate = Some(rate)]

\* The profiles written: the default profile; a poll rate alone; the full
\* profile, also with a poll rate above the maximum of a product; a macro
\* action with and without its macro; a combo of four events; a debounce
\* time out of range; a seventh button action.
WriteSamples ==
    << EmptyProfile,
       PollOnly(500),
       FullProfile,
       [FullProfile EXCEPT !.poll_rate = Some(2000)],
       [FullProfile EXCEPT !.poll_rate = Some(8000)],
       [PollOnly(4000) EXCEPT !.debounce_ms = Some(4)],
       MacroProfile,
       [MacroProfile EXCEPT !.macros = {}],
       [FullProfile EXCEPT !.button_actions[1] = LongCombo],
       [EmptyProfile EXCEPT !.debounce_ms = Some(16)],
       [FullProfile EXCEPT !.button_actions = Append(@, Unit("Disabled"))] >>

\* The failures of a writing call: of the first or second WriteProfileData
\* request, of the ReadActiveProfile request, of the first or second
\* WriteActiveProfile request.
WriteFailures ==
    {[cmd |-> c, nth |-> n, kind |-> k] :
        c \in {CmdWriteProfileData, CmdWriteActiveProfile}, n \in {1, 2}, k \in FailureKinds}
    \cup {[cmd |-> CmdReadActiveProfile, nth |-> 1, kind |-> k] : k \in FailureKinds}

SetArgs ==
    {[op |-> "args", fn |-> "set_profile", product |-> d, index |-> i,
      profiles |-> <<WriteSamples[k]>>, plan |-> NoFailure] :
        d \in Products, i \in 0..4, k \in DOMAIN WriteSamples}
    \cup {[op |-> "args", fn |-> "set_profile", product |-> "AtlantisWired", index |-> i,
           profiles |-> <<p>>, plan |-> q] :
        i \in {0, 2}, p \in {PollOnly(500), FullProfile}, q \in WriteFailures}
    \cup {[op |-> "args", fn |-> "set_profiles", product |-> "AtlantisWired", index |-> 0,
           profiles |-> ps, plan |-> q] :
        ps \in {<<>>, <<FullProfile>>,
                <<PollOnly(500), FullProfile, EmptyProfile, PollOnly(125)>>,
                <<PollOnly(500), WriteSamples[8], FullProfile>>,
                <<PollOnly(500), PollOnly(250), PollOnly(125), EmptyProfile, EmptyProfile>>},
        q \in {NoFailure,
               [cmd |-> CmdWriteProfileData, nth |-> 2, kind |-> "mouseerr"],
               [cmd |-> CmdWriteActiveProfile, nth |-> 2, kind |-> "hid"],
               [cmd |-> CmdWriteActiveProfile, nth |-> 2, kind |-> "noresp"]}}

InitFacade ==
    /\ active \in 0..3
    /\ mem = Images
    /\ call \in ProfileArgs \cup SetArgs

SetProfile ==
    /\ Calls("set_profile")
    /\ \E x \in {set_profile(Session(active, mem, call.plan), call.product, call.index,
                             call.profiles[1])} :
           Called(x)

SetProfiles ==
    /\ Calls("set_profiles")
    /\ \E x \in {set_profiles(Session(active, mem, call.plan), call.profiles)} : Called(x)

NextFacade ==
    \/ GetProfile
    \/ GetProfiles
    \/ GetActiveProfileIndex
    \/ SetActiveProfileIndex
    \/ SetProfile
    \/ SetProfiles

SpecFacade == InitFacade /\ [][NextFacade]_vars

\* C13 as stated: when the mouse answers a request of a writing call with
\* the error byte 5, the call fails with MouseErrorResponse.
C13_ErrorByteFails ==
    (call.op = "done" /\ Injected /\ call.plan.kind = "mouseerr") =>
        call.result = Err("MouseErrorResponse")

\* The mouse refused the first WriteProfileData request of set_profile with
\* the error byte 5 and left its memory as it was, and set_profile returned
\* Ok.
C13_Witness ==
    /\ call.op = "done"
    /\ call.fn = "set_profile"
    /\ Injected
    /\ call.plan = [cmd |-> CmdWriteProfileData, nth |-> 1, kind |-> "mouseerr"]
    /\ IsOk(call.result)
    /\ MemRead(mem[call.index], FailedRequest.address, Len(FailedRequest.data))
           = MemRead(Images[call.index], FailedRequest.address, Len(FailedRequest.data))
    /\ MemRead(mem[call.index], FailedRequest.address, Len(FailedRequest.data))
           # FailedRequest.data

SetProfileCalled == call.op = "done" /\ call.fn = "set_profile"

SlotsAt(items, start, length) ==
    {<<start + (i - 1) * length, length>> : i \in {k \in DOMAIN items : IsSome(items[k])}}

PresentSlots(raw) ==
    SlotsAt(<<raw.poll_rate, raw.dpi_count, raw.current_dpi_index>>, 0, 2)
        \cup SlotsAt(<<raw.lift_off_distance>>, 10, 2)
        \cup SlotsAt(raw.dpis, 12, 4)
        \cup SlotsAt(raw.dpi_colors, 44, 4)
        \cup SlotsAt(raw.button_actions, 96, 4)
        \cup SlotsAt(<<raw.debounce_ms, raw.motion_sync>>, 169, 2)
        \cup SlotsAt(<<raw.angle_snapping, raw.ripple_control>>, 175, 2)
        \cup SlotsAt(<<raw.peak_performance, raw.peak_performance_time,
                       raw.high_performance>>, 181, 2)
        \cup SlotsAt(raw.combos, 256, 32)
        \cup SlotsAt(raw.macros, 768, 384)

SlotAddresses(raw) == UNION {sl[1]..(sl[1] + sl[2] - 1) : sl \in PresentSlots(raw)}

\* The addresses of the WriteProfileData requests of the call.
WrittenAddresses ==
    UNION {call.log[i].address..(call.log[i].address + Len(call.log[i].data) - 1) :
              i \in {k \in DOMAIN call.log : call.log[k].cmd = CmdWriteProfileData}}

Variations ==
    {"none", "index 7", "index 8", "lift 2", "debounce 15", "debounce 16",
     "time 2550", "time 2551", "time 35", "actions 16", "actions 17",
     "dpis 8", "dpis 9", "colors 8", "colors 9", "dpi 820", "dpi equal"}

Repeat(v, n) == [i \in 1..n |-> v]

Vary(p, v) ==
    CASE v = "index 7" -> [p EXCEPT !.current_dpi_index = Some(7)]
      [] v = "index 8" -> [p EXCEPT !.current_dpi_index = Some(8)]
      [] v = "lift 2" -> [p EXCEPT !.lift_off_distance = Some(2)]
      [] v = "debounce 15" -> [p EXCEPT !.debounce_ms = Some(15)]
      [] v = "debounce 16" -> [p EXCEPT !.debounce_ms = Some(16)]
      [] v = "time 2550" -> [p EXCEPT !.peak_performance_time = Some(2550)]
      [] v = "time 2551" -> [p EXCEPT !.peak_performance_time = Some(2551)]
      [] v = "time 35" -> [p EXCEPT !.peak_performance_time = Some(35)]
      [] v = "actions 16" ->
             [p EXCEPT !.button_actions = @ \o Repeat(Unit("Disabled"), 16 - Len(@))]
      [] v = "actions 17" ->
             [p EXCEPT !.button_actions = @ \o Repeat(Unit("Disabled"), 17 - Len(@))]
      [] v = "dpis 8" -> [p EXCEPT !.dpis = Repeat(Linked(800), 8)]
      [] v = "dpis 9" -> [p EXCEPT !.dpis = Repeat(Linked(800), 9)]
      [] v = "colors 8" -> [p EXCEPT !.dpi_colors = Repeat(Color(0, 255, 0), 8)]
      [] v = "colors 9" -> [p EXCEPT !.dpi_colors = Repeat(Color(0, 255, 0), 9)]
      [] v = "dpi 820" -> [p EXCEPT !.dpis = <<Linked(820)>>]
      [] v = "dpi equal" -> [p EXCEPT !.dpis = <<Independent(800, 800)>>]
      [] OTHER -> p

ConvertProfiles ==
    {Vary([base EXCEPT !.poll_rate = pr], v) :
        base \in {EmptyProfile, FullProfile, MacroProfile,
                  [MacroProfile EXCEPT !.macros = {}],
                  [FullProfile EXCEPT !.button_actions[1] = LongCombo],
                  TwoMacroProfile},
        pr \in {None, Some(1000), Some(500), Some(250), Some(125), Some(300), Some(2000)},
        v \in Variations}

\* The dpi values converted: the low values, the values around 12850, where
\* dpi / 50 - 1 passes 255, and the highest 16-bit values.
ConvertDpis == 0..260 \cup 12700..12960 \cup 65400..65535

ConvertArgs ==
    {[op |-> "args", fn |-> "profile", profile |-> p, dpi |-> 0] : p \in ConvertProfiles}
    \cup {[op |-> "args", fn |-> "dpi", profile |-> EmptyProfile, dpi |-> d] :
              d \in ConvertDpis}

InitConvert ==
    /\ active = 0
    /\ mem = NoMem
    /\ call \in ConvertArgs

\* `RawProfile::try_from(&profile)`, and `Profile::try_from` of its result.
ConvertProfile ==
    /\ Calls("profile")
    /\ \E raw \in {RawProfileFrom(call.profile)} :
           call' = [call EXCEPT !.op = "done"]
                       @@ [raw |-> raw,
                           back |-> IF IsOk(raw) THEN ProfileFromRaw(raw.val) ELSE raw]
    /\ UNCHANGED <<active, mem>>

\* `dpi_to_raw(dpi)`, and `dpi_from_raw` of its result.
ConvertDpi ==
    /\ Calls("dpi")
    /\ \E raw \in {dpi_to_raw(call.dpi)} :
           call' = [call EXCEPT !.op = "done"] @@ [raw |-> raw, back |-> dpi_from_raw(raw)]
    /\ UNCHANGED <<active, mem>>

NextConvert == ConvertProfile \/ ConvertDpi

SpecConvert == InitConvert /\ [][NextConvert]_vars

ProfileConverted == call.op = "done" /\ call.fn = "profile"

DpiConverted == call.op = "done" /\ call.fn = "dpi"

\* C16 as stated: a profile that converts to a raw profile converts back to
\* itself.
C16_RoundTrip ==
    (ProfileConverted /\ IsOk(call.raw)) => call.back = Ok(call.profile)

\* The profile with a macro on the fourth button came back with every field
\* as given and the macro under its name, but with the empty name in the
\* Macro action.
C16_Witness ==
    /\ ProfileConverted
    /\ call.profile = MacroProfile
    /\ IsOk(call.back)
    /\ call.back.val.button_actions[4] = MacroAction(<<>>)
    /\ call.back.val = [MacroProfile EXCEPT !.button_actions[4] = MacroAction(<<>>)]

\* C17 as stated: in a profile decoded from a raw profile, the name of every
\* Macro action is the name stored in the macro slot that the raw action
\* refers to, and the decoded macros hold that slot's events under that
\* name.
C17_MacroNameIsKey ==
    (ProfileConverted /\ IsOk(call.back)) =>
        \A i \in DOMAIN call.back.val.button_actions :
            call.back.val.button_actions[i].name = "Macro" =>
                LET slot == call.raw.val.macros[
                                call.raw.val.button_actions[i][1].fields[1] + 1][1]
                IN  /\ call.back.val.button_actions[i].args[1] = slot.name
                    /\ \E m \in call.back.val.macros :
                           /\ m.name = call.back.val.button_actions[i].args[1]
                           /\ m.events = [k \in DOMAIN slot.events |->
                                             MacroEventFromRaw(slot.events[k])]

\* The raw profile holds the macro "m1" in slot 0 and the action of the
\* fourth button refers to it; the decoded macros hold it under "m1", and
\* the decoded action carries the empty name, under which there is no macro.
C17_Witness ==
    /\ ProfileConverted
    /\ IsOk(call.back)
    /\ Len(call.raw.val.button_actions) >= 4
    /\ Len(call.raw.val.macros) = 1
    /\ call.raw.val.button_actions[4][1] = [name |-> "Macro", fields |-> <<0>>, sub |-> ""]
    /\ call.raw.val.macros[1][1].name = MacroName
    /\ call.back.val.macros = {SampleMacro}
    /\ call.back.val.button_actions[4].args[1] = <<>>
    /\ ~\E m \in call.back.val.macros : m.name = <<>>

\* C18 as stated: the raw byte of a dpi value is dpi / 50 - 1, not below 0
\* and not above 255, and the value read back is that byte plus one, times
\* 50.
C18_ClampedTo255 ==
    DpiConverted =>
        /\ call.raw = Min(255, Max(call.dpi \div 50 - 1, 0))
        /\ call.back = (Min(255, Max(call.dpi \div 50 - 1, 0)) + 1) * 50

\* The dpi value 12850 was converted to the raw byte 0, which reads back
\* as 50.
C18_Witness ==
    /\ DpiConverted
    /\ call.dpi = 12850
    /\ call.raw = 0
    /\ call.back = 50

\* The device constraints a profile may violate.
Violates(p) ==
    \/ IsSome(p.poll_rate) /\ p.poll_rate[1] \notin {125, 250, 500, 1000}
    \/ \E i \in DOMAIN p.button_actions :
           /\ p.button_actions[i].name = "Macro"
           /\ ~\E m \in p.macros : m.name = p.button_actions[i].args[1]
    \/ IsSome(p.current_dpi_index) /\ p.current_dpi_index[1] >= 8
    \/ IsSome(p.lift_off_distance) /\ p.lift_off_distance[1] >= 2
    \/ IsSome(p.debounce_ms) /\ p.debounce_ms[1] >= 16
    \/ IsSome(p.peak_performance_time) /\ p.peak_performance_time[1] > 2550
    \/ Len(p.button_actions) > 16
    \/ Len(p.dpis) > 8
    \/ Len(p.dpi_colors) > 8

\* C19: the conversion of a profile that violates a device constraint fails
\* with InvalidConversion.
C19_ViolationIsInvalidConversion ==
    (ProfileConverted /\ Violates(call.profile)) => call.raw = Err("InvalidConversion")

\* The conversion of a profile whose one violation is a
\* peak_performance_time of 2551 failed.
C19_Witness ==
    /\ ProfileConverted
    /\ call.profile = [EmptyProfile EXCEPT !.peak_performance_time = Some(2551)]
    /\ call.raw = Err("InvalidConversion")

\* The call is a set_profile, without a failure and at an index below 4, of
\* a profile whose poll rate is above the maximum of the product.
AboveMaximum ==
    /\ SetProfileCalled
    /\ call.plan = NoFailure
    /\ call.index < 4
    /\ IsSome(call.profiles[1].poll_rate)
    /\ call.profiles[1].poll_rate[1] > max_poll_rate(call.product)

\* C20 as stated: set_profile of a profile whose poll rate is above the
\* maximum of the product succeeds, and the poll rate slot of the profile
\* then holds the maximum (1000 Hz is the raw byte 1).
C20_CappedWriteSucceeds ==
    AboveMaximum =>
        /\ IsOk(call.result)
        /\ max_poll_rate(call.product) = 1000 =>
               MemRead(mem[call.index], 0, 2) = StoredSlot(Sum171, <<1>>)

\* The full profile with a poll rate of 8000 Hz was set at index 2 of an
\* AtlantisWireless4K whose active index was 1: the call failed with
\* InvalidConversion without a WriteProfileData request, and the active
\* index stayed at 2.
C20_Witness ==
    /\ AboveMaximum
    /\ call.product = "AtlantisWireless4K"
    /\ call.profiles[1].poll_rate = Some(8000)
    /\ call.index = 2
    /\ call.was = 1
    /\ call.result = Err("InvalidConversion")
    /\ RequestsOf(CmdWriteProfileData) = <<>>
    /\ active = 2

\* The positions in the log of the requests with a command of `cmds`.
PositionsOf(cmds) == {i \in DOMAIN call.log : call.log[i].cmd \in cmds}

DataCmds == {CmdReadProfileData, CmdWriteProfileData}

\* The call switched the profile and then failed in its inner step: in a
\* conversion, or in a request that reads or writes profile data.
InnerStepFailed ==
    /\ call.op = "done"
    /\ call.fn \in {"profile", "set_profile", "profiles", "set_profiles"}
    /\ call.result.kind = "err"
    /\ PositionsOf({CmdWriteActiveProfile}) # {}
    /\ call.plan = NoFailure \/ call.plan.cmd \in DataCmds

\* C1 as stated: a call of the facade that switched the profile and then
\* failed in its inner step ends with WriteActiveProfile(original index),
\* and the active index is the one before the call.
C1_RestoredAfterFailure ==
    InnerStepFailed =>
        /\ call.log[Len(call.log)] = write_active_profile(call.was)
        /\ active = call.was

\* profile(2) on a mouse whose active index was 1 failed in its first
\* ReadProfileData request, which was its last request, and the active
\* index is 2.
C1_Witness ==
    /\ InnerStepFailed
    /\ call.fn = "profile"
    /\ call.index = 2
    /\ call.was = 1
    /\ call.plan = [cmd |-> CmdReadProfileData, nth |-> 1, kind |-> "hid"]
    /\ call.result = Err("Hid")
    /\ call.log[Len(call.log)] = read_profile_data(0, 10)
    /\ active = 2

\* C2: a successful profile(i) or set_profile(i, p) with i below 4 starts
\* with ReadActiveProfile; with i the active index it issues no
\* WriteActiveProfile; otherwise it issues exactly two, WriteActiveProfile(i)
\* before and WriteActiveProfile(original index) after every request that
\* reads or writes profile data.
C2_SwitchAndRestore ==
    (/\ call.op = "done"
     /\ call.fn \in {"profile", "set_profile"}
     /\ call.index < 4
     /\ IsOk(call.result)) =>
        /\ call.log[1] = read_active_profile
        /\ IF call.index = call.was THEN PositionsOf({CmdWriteActiveProfile}) = {}
           ELSE \E i, j \in DOMAIN call.log :
                    /\ i < j
                    /\ PositionsOf({CmdWriteActiveProfile}) = {i, j}
                    /\ call.log[i] = write_active_profile(call.index)
                    /\ call.log[j] = write_active_profile(call.was)
                    /\ \A d \in PositionsOf(DataCmds) : i < d /\ d < j

\* The full profile was set at index 3 of a mouse whose active index was 0,
\* and index 3 was read from a mouse whose active index was 3: the first
\* with two WriteActiveProfile requests, the second with none.
C2_Witness ==
    /\ call.op = "done"
    /\ IsOk(call.result)
    /\ PositionsOf(DataCmds) # {}
    /\ \/ /\ call.fn = "set_profile"
          /\ call.profiles = <<FullProfile>>
          /\ call.index = 3
          /\ call.was = 0
          /\ Len(RequestsOf(CmdWriteActiveProfile)) = 2
       \/ /\ call.fn = "profile"
          /\ call.index = 3
          /\ call.was = 3
          /\ RequestsOf(CmdWriteActiveProfile) = <<>>

\* C3 as stated: profiles and set_profiles, with no failure injected, issue
\* WriteActiveProfile for the indices 0, 1, 2, 3 in that order, each before
\* the requests for the profile data of its index, and then, as the last
\* request, WriteActiveProfile(original index).
C3_BulkVisitsAll ==
    (/\ call.op = "done"
     /\ call.fn \in {"profiles", "set_profiles"}
     /\ call.plan = NoFailure) =>
        /\ RequestsOf(CmdWriteActiveProfile) =
               [i \in 1..4 |-> write_active_profile(i - 1)]
                   \o <<write_active_profile(call.was)>>
        /\ call.log[Len(call.log)] = write_active_profile(call.was)
        /\ call.log[2] = write_active_profile(0)

\* set_profiles with five profiles on a mouse whose active index was 1
\* wrote four profiles and failed with InvalidConversion at the fifth: its
\* last WriteActiveProfile is that of index 3, and 3 is the active index.
C3_Witness ==
    /\ call.op = "done"
    /\ call.fn = "set_profiles"
    /\ Len(call.profiles) = 5
    /\ call.plan = NoFailure
    /\ call.was = 1
    /\ call.result = Err("InvalidConversion")
    /\ RequestsOf(CmdWriteActiveProfile) = [i \in 1..4 |-> write_active_profile(i - 1)]
    /\ active = 3

\* The call is one with an index of 4 or more.
OutOfRange ==
    /\ call.op = "done"
    /\ call.fn \in {"profile", "set_profile", "set_active_profile_index"}
    /\ call.index >= 4

NothingSent ==
    /\ PositionsOf({CmdWriteActiveProfile} \cup DataCmds) = {}
    /\ active = call.was
    /\ mem = Images

\* C4 as stated: a call with an index of 4 or more fails with
\* InvalidConversion, sends no WriteActiveProfile and no request for profile
\* data, and leaves the active index and the memory as they were.
C4_OutOfRangeIsInvalidConversion ==
    OutOfRange => call.result = Err("InvalidConversion") /\ NothingSent

\* C4, amended: a call with an index of 4 or more fails, sends no
\* WriteActiveProfile and no request for profile data, and leaves the active
\* index and the memory as they were.  set_active_profile_index sends no
\* request and fails with InvalidConversion; profile and set_profile first
\* send ReadActiveProfile and fail with InvalidConversion when it is
\* answered, and with the error of that request when it fails.
C4_OutOfRangeSendsNothing ==
    OutOfRange =>
        /\ NothingSent
        /\ call.result.kind = "err"
        /\ IF call.fn = "set_active_profile_index"
           THEN call.log = <<>> /\ call.result = Err("InvalidConversion")
           ELSE /\ call.log = <<read_active_profile>>
                /\ IF Injected
                   THEN call.result.err \in {"Hid", "MouseErrorResponse", "NoResponse",
                                             "BinRw:checksum"}
                   ELSE call.result = Err("InvalidConversion")

\* profile(4) failed in the HID layer at its ReadActiveProfile request, and
\* set_profile(4, p) failed with InvalidConversion after it.
C4_Witness ==
    /\ OutOfRange
    /\ call.log = <<read_active_profile>>
    /\ \/ call.fn = "profile" /\ Injected /\ call.result = Err("Hid")
       \/ call.fn = "set_profile" /\ call.result = Err("InvalidConversion")

\* The bytes BinWrite produces for the raw action of button `i` (from 1).
ActionBytes(raw, i) == Flatten(PaddedRawActionChunks(raw.button_actions[i][1]))

\* C21: in the raw profile made from a profile, combo slot i is present
\* exactly when button i holds a Combo action and then holds its events;
\* the k-th Macro action in button order fills macro slot k - 1 with the
\* name and the events of its macro and is written as 0x06 followed by
\* k - 1; a Combo action is written as 0x05 and MiddleClick as 0x01 0x04.
C21_SlotsFollowActions ==
    (ProfileConverted /\ IsOk(call.raw)) =>
        LET acts == call.profile.button_actions
            raw == call.raw.val
            macro_at == SelectSeq([i \in 1..Len(acts) |-> i],
                                  LAMBDA i : acts[i].name = "Macro")
        IN  /\ Len(raw.combos) = Len(acts)
            /\ Len(raw.button_actions) = Len(acts)
            /\ \A i \in 1..Len(acts) :
                   /\ IsSome(raw.combos[i]) <=> acts[i].name = "Combo"
                   /\ acts[i].name = "Combo" =>
                          /\ raw.combos[i] = Some(RawComboFrom(acts[i].args))
                          /\ ActionBytes(raw, i) = <<5, 0, 0>>
                   /\ acts[i] = Unit("MiddleClick") => ActionBytes(raw, i) = <<1, 4, 0>>
            /\ Len(raw.macros) = Len(macro_at)
            /\ \A k \in 1..Len(macro_at) :
                   /\ ActionBytes(raw, macro_at[k]) = <<6, k - 1, 0>>
                   /\ IsSome(raw.macros[k])
                   /\ raw.macros[k][1].name = acts[macro_at[k]].args[1]
                   /\ \E m \in call.profile.macros :
                          /\ m.name = acts[macro_at[k]].args[1]
                          /\ raw.macros[k][1].events =
                                 [e \in DOMAIN m.events |-> RawMacroEventFrom(m.events[e])]

\* The profile with Macro actions on buttons 2, 4 and 6 was converted: the
\* macro slots hold "m2", "m1", "m2", the three actions carry 0, 1 and 2,
\* and only the combo slots of buttons 3 and 5 are present.
C21_Witness ==
    /\ ProfileConverted
    /\ call.profile = TwoMacroProfile
    /\ IsOk(call.raw)
    /\ [k \in 1..3 |-> call.raw.val.macros[k][1].name] = <<SecondName, MacroName, SecondName>>
    /\ ActionBytes(call.raw.val, 2) = <<6, 0, 0>>
    /\ ActionBytes(call.raw.val, 4) = <<6, 1, 0>>
    /\ ActionBytes(call.raw.val, 6) = <<6, 2, 0>>
    /\ ActionBytes(call.raw.val, 1) = <<1, 4, 0>>
    /\ {i \in 1..6 : IsSome(call.raw.val.combos[i])} = {3, 5}

(***************************************************************************)
(* The calls of Read, Write and Seek on one ProfileReader or ProfileWriter, *)
(* each with its result.                                                   *)
(***************************************************************************)
\* usize::checked_add_signed, for the sums the calls can reach.
CheckedAddSigned(a, d) == IF a + d < 0 THEN Err("Io:InvalidInput") ELSE Ok(a + d)

Returned(h, result, out) == [h |-> h, result |-> result, out |-> out]

\* The second half of ProfileReader::read: clone_from_slice panics unless
\* the destination of `n` bytes is as long as the slice copied into it.
ReaderCopy(r, n) ==
    IF Min(n, Len(r.buf)) # n THEN Returned(r, Panic, <<>>)
    ELSE Returned([r EXCEPT !.buf = Drop(@, n), !.position = @ + n], Ok(n),
                  Take(r.buf, n))

\* Read::read of ProfileReader with a destination of `n` bytes.
ReaderReadCall(r, n) ==
    IF r.buf # <<>> THEN ReaderCopy(r, n)
    ELSE Let(Remaining(r), LAMBDA rem :
         IF ~IsOk(rem) THEN Returned(r, rem, <<>>)
         ELSE IF Min(rem.val, MaxData) = 0 THEN Returned(r, Ok(0), <<>>)
         ELSE Let(Exchange(r.s, read_profile_data(r.address + r.position,
                                                  Min(rem.val, MaxData))),
              LAMBDA x :
                  LET d == into_data(x.result)
                  IN  IF IsOk(d) THEN ReaderCopy([r EXCEPT !.s = x.s, !.buf = d.val], n)
                      ELSE Returned([r EXCEPT !.s = x.s], d, <<>>)))

\* Seek::seek of ProfileReader.
ReaderSeekCall(r, whence, offset) ==
    LET kept == IF whence # "Current" THEN <<>>
                ELSE IF offset < 0 \/ offset >= Len(r.buf) THEN <<>>
                ELSE Drop(r.buf, offset)
        pos == CASE whence = "Start" -> Ok(offset)
                 [] whence = "End" -> CheckedAddSigned(DATA_END, offset)
                 [] OTHER -> CheckedAddSigned(r.position, offset)
    IN  IF IsOk(pos) THEN Returned([r EXCEPT !.buf = kept, !.position = pos.val], pos, <<>>)
        ELSE Returned([r EXCEPT !.buf = kept], pos, <<>>)

\* What a call of Write::flush comes to: flush itself returns no error.
Flushed(w) ==
    CASE w.err = "" -> Ok(<<>>)
      [] w.err = "panic" -> Panic
      [] OTHER -> Hang

WriterFlushCall(w) ==
    Let(WriterFlush(w), LAMBDA f : Returned([f EXCEPT !.err = ""], Flushed(f), <<>>))

\* Seek::seek of ProfileWriter.
WriterSeekCall(w, whence, offset) ==
    Let(IF whence = "Current" /\ offset = 0 THEN w ELSE WriterFlush(w), LAMBDA f :
        LET pos == CASE whence = "Start" -> Ok(offset)
                     [] whence = "End" -> CheckedAddSigned(DATA_END, offset)
                     [] OTHER -> CheckedAddSigned(f.position, offset)
        IN  IF f.err # "" THEN Returned([f EXCEPT !.err = ""], Flushed(f), <<>>)
            ELSE IF IsOk(pos) THEN Returned([f EXCEPT !.position = pos.val], pos, <<>>)
            ELSE Returned(f, pos, <<>>))

\* Write::write of ProfileWriter.
WriterWriteCall(w, bytes) ==
    Let(WriterWrite(w, bytes), LAMBDA x : Returned(x.w, x.result, <<>>))

\* Write::write_all, as binrw calls it.
WriterWriteAllCall(w, bytes) ==
    Let(WriterWriteAll(w, bytes), LAMBDA a :
        Returned([a EXCEPT !.err = ""],
                 CASE a.err = "" -> Ok(<<>>)
                   [] a.err = "panic" -> Panic
                   [] OTHER -> Err(a.err),
                 <<>>))

\* Drop for ProfileWriter: `self.flush().unwrap()`.
WriterDropCall(w) == WriterFlushCall(w)

(***************************************************************************)
(* The specification of the handle calls: a reader or a writer is made at  *)
(* an origin near the end of the profile memory, in a build with or        *)
(* without overflow checks, and called up to MaxCalls times.               *)
(***************************************************************************)
MaxCalls == 3

\* The last bytes of the profile memory, each different from its
\* neighbours and from the blank byte.
TailLength == 24

TailImage == [a \in (DATA_END - TailLength)..(DATA_END - 1) |-> a % 251]

Origins == {DATA_END - 24, DATA_END - 3}

ReadLengths == {1, 2, 10, 11}

SeekTargets ==
    {<<"Start", 0>>, <<"Start", 3>>,
     <<"Current", -1>>, <<"Current", 0>>, <<"Current", 2>>, <<"Current", -30>>,
     <<"End", -5>>}

WriteLengths == {5, 8, 12}

\* The bytes of the `i`-th call, `n` of them: no byte occurs twice among the
\* bytes of one behaviour.
Payload(i, n) == [j \in 1..n |-> 16 * i + j]

HandleFailures ==
    {NoFailure}
        \cup {[cmd |-> c, nth |-> 1, kind |-> k] :
                  c \in {CmdReadProfileData, CmdWriteProfileData}, k \in {"hid", "mouseerr"}}
        \cup {[cmd |-> CmdWriteProfileData, nth |-> 1, kind |-> "unplugged"]}

NewHandle(fn, s, address) ==
    IF fn = "reader" THEN ProfileReaderNew(s, address) ELSE ProfileWriterNew(s, address)

\* A failure is injected into the requests that the handle sends.
CmdOf(fn) == IF fn = "reader" THEN CmdReadProfileData ELSE CmdWriteProfileData

HandleArgs ==
    {a \in {[op |-> "open", fn |-> f, hist |-> <<>>,
             h |-> [NewHandle(f, Session(1, [p \in 0..3 |-> TailImage], q), o)
                        EXCEPT !.wraps = b]] :
                f \in {"reader", "writer"}, o \in Origins, b \in BOOLEAN,
                q \in HandleFailures} :
        a.h.s.plan.cmd \in {0, CmdOf(a.fn)}}

InitHandle ==
    /\ active = 1
    /\ mem = [p \in 0..3 |-> TailImage]
    /\ call \in HandleArgs

Open(fn) == call.op = "open" /\ call.fn = fn

\* The record of a call: the function and its argument, the handle before
\* and after, the result, the bytes a read gave, the requests it sent and
\* the number of the first of them among all requests.
HandleCalled(fn, arg, x) ==
    /\ active' = x.h.s.active
    /\ mem' = x.h.s.mem
    /\ call' = [call EXCEPT
           !.h = x.h,
           !.hist = Append(@, [fn |-> fn, arg |-> arg, result |-> x.result, out |-> x.out,
                               before |-> [position |-> call.h.position, buf |-> call.h.buf],
                               after |-> [position |-> x.h.position, buf |-> x.h.buf],
                               first |-> Len(call.h.s.log) + 1,
                               sent |-> SubSeq(x.h.s.log, Len(call.h.s.log) + 1,
                                               Len(x.h.s.log))]),
           !.op = IF fn = "drop" \/ x.result.kind \in {"panic", "hang"}
                     \/ Len(call.hist) + 1 = MaxCalls
                  THEN "closed" ELSE "open"]

ReaderRead_ ==
    /\ Open("reader")
    /\ \E n \in ReadLengths : \E x \in {ReaderReadCall(call.h, n)} :
           HandleCalled("read", n, x)

ReaderSeek ==
    /\ Open("reader")
    /\ \E t \in SeekTargets : \E x \in {ReaderSeekCall(call.h, t[1], t[2])} :
           HandleCalled("seek", t, x)

WriterWrite_ ==
    /\ Open("writer")
    /\ \E n \in WriteLengths :
           \E x \in {WriterWriteCall(call.h, Payload(Len(call.hist) + 1, n))} :
               HandleCalled("write", Payload(Len(call.hist) + 1, n), x)

WriterWriteAll_ ==
    /\ Open("writer")
    /\ \E n \in {5, 12} :
           \E x \in {WriterWriteAllCall(call.h, Payload(Len(call.hist) + 1, n))} :
               HandleCalled("write_all", Payload(Len(call.hist) + 1, n), x)

WriterFlush_ ==
    /\ Open("writer")
    /\ \E x \in {WriterFlushCall(call.h)} : HandleCalled("flush", <<>>, x)

WriterSeek ==
    /\ Open("writer")
    /\ \E t \in SeekTargets : \E x \in {WriterSeekCall(call.h, t[1], t[2])} :
           HandleCalled("seek", t, x)

WriterDrop ==
    /\ Open("writer")
    /\ \E x \in {WriterDropCall(call.h)} : HandleCalled("drop", <<>>, x)

NextHandle ==
    \/ ReaderRead_ \/ ReaderSeek
    \/ WriterWrite_ \/ WriterWriteAll_ \/ WriterFlush_ \/ WriterSeek \/ WriterDrop

SpecHandle == InitHandle /\ [][NextHandle]_vars

(***************************************************************************)
(* Claims about the handle calls.                                          *)
(***************************************************************************)
HandleOf(fn) == call.op \in {"open", "closed"} /\ call.fn = fn

Origin == call.h.address

\* The calls made so far of the function `fn`.
CallsOf(fn) == {i \in DOMAIN call.hist : call.hist[i].fn = fn}

\* The cursor stayed between the origin and DATA_END, before and after
\* every call.
InWindow ==
    \A i \in DOMAIN call.hist :
        /\ Origin + call.hist[i].before.position \in Origin..DATA_END
        /\ Origin + call.hist[i].after.position \in Origin..DATA_END

Undisturbed == call.h.s.plan = NoFailure

\* C22 as stated: while the cursor of a reader stays between its origin and
\* 0x1B00 and no request fails, every read returns the bytes of the device
\* from origin + position on, advances the position by their number, and at
\* 0x1B00 returns no bytes without sending a request.
C22_ReadsDeviceBytes ==
    (HandleOf("reader") /\ Undisturbed /\ InWindow) =>
        \A i \in CallsOf("read") :
            LET c == call.hist[i]
                from == Origin + c.before.position
            IN  /\ IsOk(c.result)
                /\ c.result.val = Len(c.out)
                /\ c.out = MemRead(TailImage, from, Len(c.out))
                /\ c.after.position = c.before.position + Len(c.out)
                /\ from = DATA_END => c.out = <<>> /\ c.sent = <<>>
                /\ from < DATA_END => c.out # <<>>

\* A reader at 24 bytes before 0x1B00 read 1 byte, which left 9 bytes
\* buffered, and the next read, with a destination of 10 bytes, panicked.
C22_Witness ==
    /\ HandleOf("reader")
    /\ Undisturbed
    /\ InWindow
    /\ Origin = DATA_END - 24
    /\ Len(call.hist) = 2
    /\ call.hist[1].fn = "read" /\ call.hist[1].arg = 1 /\ call.hist[1].result = Ok(1)
    /\ call.hist[2].fn = "read" /\ call.hist[2].arg = 10
    /\ call.hist[2].before.buf = MemRead(TailImage, DATA_END - 23, 9)
    /\ call.hist[2].result = Panic

\* The bytes a read can take without another request: the buffered ones,
\* or with an empty buffer those of the request that fills it.
Available(c) ==
    IF c.before.buf # <<>> THEN Len(c.before.buf)
    ELSE Min(MaxData, DATA_END - (Origin + c.before.position))

\* C29 as stated: a read succeeds for every length of its destination, and
\* a destination longer than the bytes at hand gets a short read.
C29_ShortReadSucceeds ==
    (HandleOf("reader") /\ Undisturbed /\ InWindow) =>
        \A i \in CallsOf("read") :
            /\ IsOk(call.hist[i].result)
            /\ call.hist[i].result.val = Min(call.hist[i].arg, Available(call.hist[i]))

\* A reader at 3 bytes before 0x1B00 read 2 bytes, which left 1 byte
\* buffered, and the next read of 2 bytes panicked.
C29_Witness ==
    /\ HandleOf("reader")
    /\ Undisturbed
    /\ Origin = DATA_END - 3
    /\ Len(call.hist) = 2
    /\ call.hist[1].fn = "read" /\ call.hist[1].result = Ok(2)
    /\ call.hist[2].fn = "read" /\ call.hist[2].arg = 2
    /\ Len(call.hist[2].before.buf) = 1
    /\ call.hist[2].result = Panic
    /\ call.op = "closed"

\* The requests the handle has sent.
Sent == call.h.s.log

\* C23 as stated: whatever calls are made on a reader or a writer, every
\* ReadProfileData and WriteProfileData request carries 1 to 10 bytes and
\* ends at or before 0x1B00.
C23_RequestsInsideMemory ==
    (HandleOf("reader") \/ HandleOf("writer")) =>
        \A i \in DOMAIN Sent :
            Sent[i].cmd \in DataCmds =>
                /\ Len(Sent[i].data) \in 1..MaxData
                /\ Sent[i].address + Len(Sent[i].data) <= DATA_END

\* In a build without overflow checks, a reader at 24 bytes before 0x1B00
\* was moved by SeekFrom::End(-5) to position 0x1B00 - 5, that is to the
\* address 2 * 0x1B00 - 29, and its next read requested 10 bytes from there.
C23_Witness ==
    /\ HandleOf("reader")
    /\ call.h.wraps
    /\ Origin = DATA_END - 24
    /\ Len(call.hist) = 2
    /\ call.hist[1].fn = "seek" /\ call.hist[1].arg = <<"End", -5>>
    /\ call.hist[1].result = Ok(DATA_END - 5)
    /\ call.hist[2].fn = "read"
    /\ call.hist[2].sent = <<read_profile_data(2 * DATA_END - 29, 10)>>

\* Where the byte `b` went: the pairs <<request, address>> at which a
\* WriteProfileData request carried it.
SentAt(b) ==
    UNION {{<<i, Sent[i].address + k - 1>> :
               k \in {k \in DOMAIN Sent[i].data : Sent[i].data[k] = b}} :
           i \in {i \in DOMAIN Sent : Sent[i].cmd = CmdWriteProfileData}}

\* The position of the stream before call `i`, as its caller sees it: a
\* write moves it by the bytes written and a seek that succeeds sets it.
RECURSIVE CursorBefore(_)
CursorBefore(i) ==
    IF i = 1 THEN 0
    ELSE LET c == call.hist[i - 1]
         IN  CASE c.fn = "write" -> CursorBefore(i - 1) + Len(c.arg)
               [] c.fn = "seek" /\ IsOk(c.result) /\ c.arg[1] = "Start" -> c.arg[2]
               [] c.fn = "seek" /\ IsOk(c.result) /\ c.arg[1] = "End" -> DATA_END + c.arg[2]
               [] c.fn = "seek" /\ IsOk(c.result) -> CursorBefore(i - 1) + c.arg[2]
               [] OTHER -> CursorBefore(i - 1)

\* The calls that send what is pending: flush, drop and every seek but
\* SeekFrom::Current(0).
Drains ==
    {i \in DOMAIN call.hist :
        /\ call.hist[i].result.kind \in {"ok", "err"}
        /\ \/ call.hist[i].fn \in {"flush", "drop"}
           \/ call.hist[i].fn = "seek" /\ call.hist[i].arg # <<"Current", 0>>}

\* C24 as stated: of the bytes passed to write, none is sent twice, each is
\* sent at the address of the stream position it was written at, the bytes
\* of one write are sent in their order, and the bytes pending at a flush
\* or seek have been sent when it returns.
C24_SentOnceInOrder ==
    (HandleOf("writer") /\ Undisturbed /\ CallsOf("write_all") = {}) =>
        \A i \in CallsOf("write") :
            LET b == call.hist[i].arg
                at(j) == Origin + CursorBefore(i) + j - 1
            IN  \A j \in DOMAIN b :
                    /\ Cardinality(SentAt(b[j])) <= 1
                    /\ \A p \in SentAt(b[j]) : p[2] = at(j)
                    /\ \A k \in 1..(j - 1) : \A p \in SentAt(b[k]), q \in SentAt(b[j]) :
                           p[1] <= q[1]
                    /\ ((\E t \in Drains : t > i) /\ at(j) < DATA_END) =>
                           SentAt(b[j]) # {}

\* A writer at 3 bytes before 0x1B00 was given 5 bytes; the seek to
\* position 0 sent 3 of them and kept the other 2 (20 and 21), and the
\* write of 8 bytes that followed sent those 2 at the origin, ahead of the
\* first of its own bytes (49).
C24_Witness ==
    /\ HandleOf("writer")
    /\ Undisturbed
    /\ Origin = DATA_END - 3
    /\ Len(call.hist) = 3
    /\ call.hist[1].fn = "write" /\ call.hist[1].arg = Payload(1, 5)
    /\ call.hist[2].fn = "seek" /\ call.hist[2].arg = <<"Start", 0>>
    /\ call.hist[2].result = Ok(0)
    /\ call.hist[2].sent = <<write_profile_data(DATA_END - 3, Payload(1, 3))>>
    /\ call.hist[3].fn = "write" /\ call.hist[3].arg = Payload(3, 8)
    /\ call.hist[3].sent = <<write_profile_data(DATA_END - 3, <<20, 21, 49>>)>>

\* A request sent by call `i` failed: it is the request the injected
\* failure falls on (or, with the device unplugged, a later one).
FailedIn(i) ==
    LET c == call.hist[i]
        plan == call.h.s.plan
    IN  /\ plan # NoFailure
        /\ c.sent # <<>>
        /\ \/ plan.nth \in c.first..(c.first + Len(c.sent) - 1)
           \/ plan.kind = "unplugged" /\ plan.nth < c.first + Len(c.sent)

\* C25 as stated: flush, called directly, by a seek or on drop, always
\* returns; when one of its WriteProfileData requests fails it sends no
\* further request and reports the failure, as an error of flush and seek
\* and as a panic of drop.
C25_FlushStopsOnFailure ==
    HandleOf("writer") =>
        \A i \in CallsOf("flush") \cup CallsOf("seek") \cup CallsOf("drop") :
            LET c == call.hist[i]
            IN  /\ c.result.kind # "hang"
                /\ FailedIn(i) =>
                       /\ c.result.kind = IF c.fn = "drop" THEN "panic" ELSE "err"
                       /\ call.h.s.plan.nth = c.first + Len(c.sent) - 1

\* The first WriteProfileData request failed in the HID layer while flush
\* was sending 5 pending bytes: flush sent the same request again and
\* returned Ok.
C25_Witness ==
    /\ HandleOf("writer")
    /\ call.h.s.plan = [cmd |-> CmdWriteProfileData, nth |-> 1, kind |-> "hid"]
    /\ Origin = DATA_END - 24
    /\ Len(call.hist) = 2
    /\ call.hist[1].fn = "write" /\ call.hist[1].arg = Payload(1, 5)
    /\ call.hist[1].sent = <<>>
    /\ call.hist[2].fn = "flush"
    /\ FailedIn(2)
    /\ call.hist[2].sent = << write_profile_data(DATA_END - 24, Payload(1, 5)),
                              write_profile_data(DATA_END - 24, Payload(1, 5)) >>
    /\ call.hist[2].result = Ok(<<>>)

\* C26 as stated: when a flush, called directly or by a seek, has returned
\* Ok the writer holds no pending bytes, and no byte that was pending
\* before it is sent by a later call.
C26_NothingKeptAfterFlush ==
    (HandleOf("writer") /\ Undisturbed) =>
        \A i \in Drains :
            IsOk(call.hist[i].result) =>
                /\ call.hist[i].after.buf = <<>>
                /\ \A t \in DOMAIN call.hist : \A k \in DOMAIN call.hist[t].sent :
                       t > i =>
                           \A j \in DOMAIN call.hist[t].sent[k].data :
                               \A n \in DOMAIN call.hist[i].before.buf :
                                   call.hist[t].sent[k].data[j] # call.hist[i].before.buf[n]

\* A writer at 3 bytes before 0x1B00 was given 5 bytes; the seek back by
\* one byte sent 3 of them, returned Ok and kept 20 and 21, and the drop of
\* the writer sent 20 at the address 0x1B00 - 1.
C26_Witness ==
    /\ HandleOf("writer")
    /\ Undisturbed
    /\ Origin = DATA_END - 3
    /\ Len(call.hist) = 3
    /\ call.hist[1].fn = "write" /\ call.hist[1].arg = Payload(1, 5)
    /\ call.hist[1].result = Ok(5)
    /\ call.hist[2].fn = "seek" /\ call.hist[2].arg = <<"Current", -1>>
    /\ call.hist[2].result = Ok(2)
    /\ call.hist[2].sent = <<write_profile_data(DATA_END - 3, <<17, 18, 19>>)>>
    /\ call.hist[2].after.buf = <<20, 21>>
    /\ call.hist[3].fn = "drop"
    /\ call.hist[3].sent = <<write_profile_data(DATA_END - 1, <<20>>)>>
    /\ call.hist[3].result = Ok(<<>>)

\* C28 as stated: a write of b that succeeds returns a count between 0 and
\* the length of b, so that write_all, which offers the rest of b again,
\* does not index past the end of b and sends no byte of b twice.
C28_CountWithinBytesGiven ==
    (HandleOf("writer") /\ Undisturbed /\ InWindow) =>
        /\ \A i \in CallsOf("write") :
               IsOk(call.hist[i].result) =>
                   call.hist[i].result.val \in 0..Len(call.hist[i].arg)
        /\ \A i \in CallsOf("write_all") :
               /\ call.hist[i].result.kind # "panic"
               /\ \A j \in DOMAIN call.hist[i].arg :
                      Cardinality(SentAt(call.hist[i].arg[j])) <= 1

\* A writer with 8 bytes pending was given 5 bytes by write_all: write sent
\* the first 10 of the 13 bytes and returned 10, and write_all panicked on
\* the slice of the rest, `&buf[10..]` of 5 bytes.
C28_Witness ==
    /\ HandleOf("writer")
    /\ Undisturbed
    /\ Origin = DATA_END - 24
    /\ Len(call.hist) = 2
    /\ call.hist[1].fn = "write" /\ call.hist[1].arg = Payload(1, 8)
    /\ call.hist[1].result = Ok(8)
    /\ call.hist[2].fn = "write_all" /\ call.hist[2].arg = Payload(2, 5)
    /\ call.hist[2].sent =
           <<write_profile_data(DATA_END - 24, Payload(1, 8) \o Payload(2, 2))>>
    /\ call.hist[2].result = Panic

(***************************************************************************)
(* Claims about a set_profile that cannot store its profile.               *)
(***************************************************************************)
\* set_profile failed with an error about the profile itself: it does not
\* convert, or an assertion of the raw types rejects it.
CannotBeStored ==
    /\ SetProfileCalled
    /\ call.plan = NoFailure
    /\ ~IsOk(call.result)
    /\ ErrorOf(call.result) \in {"InvalidConversion", "BinRw:assert"}

\* C30 as stated: when set_profile fails because the profile cannot be
\* stored, it has sent no WriteProfileData request and the profile memory
\* is as before.
C30_RejectedBeforeFirstWrite ==
    CannotBeStored => RequestsOf(CmdWriteProfileData) = <<>> /\ mem = Images

\* set_profile of a profile with seven button actions failed on the
\* assertion about their number, after it had sent WriteProfileData
\* requests and changed the memory of profile 2.
C30_Witness ==
    /\ CannotBeStored
    /\ call.profiles[1] = [FullProfile EXCEPT !.button_actions = Append(@, Unit("Disabled"))]
    /\ call.index = 2
    /\ call.result = Err("BinRw:assert")
    /\ Len(RequestsOf(CmdWriteProfileData)) = 8
    /\ \A i \in DOMAIN RequestsOf(CmdWriteProfileData) :
           RequestsOf(CmdWriteProfileData)[i].address < 96
    /\ mem[2] # Images[2]
    /\ \A p \in {0, 1, 3} : mem[p] = Images[p]

(***************************************************************************)
(* The specification of a session: up to MaxRequests requests on one HID   *)
(* handle, whose reports wait in the order the mouse sent them until a     *)
(* device.read takes them.                                                 *)
(***************************************************************************)
MaxRequests == 3

SessionRequests ==
    {read_profile_data(a, 4) : a \in {DATA_END - 24, DATA_END - 14}}
        \cup {read_active_profile}

\* What the handle delivers ahead of the answer to `rq`: nothing, reports
\* of another command, or a failure of the read.
Ahead(rq) ==
    {<<>>, <<Unrelated(rq)>>, [i \in 1..MaxReads |-> Unrelated(rq)], <<HidError>>}

InitSession ==
    /\ active = 1
    /\ mem = [p \in 0..3 |-> TailImage]
    /\ call = [op |-> "session", queue |-> <<>>, hist |-> <<>>]

\* make_request(device, rq): the mouse puts `ahead` and its answer behind
\* the reports that still wait, and make_request reads from the front.
Requested(rq, ahead) ==
    LET answer == DeviceAnswer(Session(active, mem, NoFailure), rq)
        incoming == call.queue \o ahead \o <<HidRead(Serialise(answer).bytes)>>
    IN  \E x \in {make_request(rq, "ok", incoming)} :
            /\ call' = [call EXCEPT
                   !.queue = Drop(incoming, x.reads),
                   !.hist = Append(@, [request |-> rq, answer |-> answer,
                                       result |-> x.result, reads |-> x.reads])]
            /\ UNCHANGED <<active, mem>>

InSession == call.op = "session" /\ Len(call.hist) < MaxRequests

RequestProfileData ==
    /\ InSession
    /\ \E rq \in SessionRequests : \E ahead \in Ahead(rq) :
           rq.cmd = CmdReadProfileData /\ Requested(rq, ahead)

RequestActiveProfile ==
    /\ InSession
    /\ \E ahead \in Ahead(read_active_profile) : Requested(read_active_profile, ahead)

NextSession == RequestProfileData \/ RequestActiveProfile

SpecSession == InitSession /\ [][NextSession]_vars

\* C27 as stated: the report make_request returns for a ReadProfileData
\* request is the answer of the mouse to that request, whatever happened to
\* the requests before it.
C27_AnswerOfThisRequest ==
    call.op = "session" =>
        \A i \in DOMAIN call.hist :
            (call.hist[i].request.cmd = CmdReadProfileData /\ IsOk(call.hist[i].result)) =>
                call.hist[i].result.val = call.hist[i].answer

\* The read at 0x1B00 - 24 ended with NoResponse after three reports of
\* another command, its answer stayed unread, and the read at 0x1B00 - 14
\* that followed returned that answer.
C27_Witness ==
    /\ call.op = "session"
    /\ Len(call.hist) = 2
    /\ call.hist[1].request = read_profile_data(DATA_END - 24, 4)
    /\ call.hist[1].result = Err("NoResponse")
    /\ call.hist[2].request = read_profile_data(DATA_END - 14, 4)
    /\ call.hist[2].result = Ok(call.hist[1].answer)
    /\ call.hist[2].result.val.address = DATA_END - 24
    /\ call.hist[2].result.val.data = MemRead(TailImage, DATA_END - 24, 4)
    /\ call.hist[2].answer.data = MemRead(TailImage, DATA_END - 14, 4)
    /\ Len(call.queue) = 1

=============================================================================
